---- MODULE Spec2Model ----
(***************************************************************************)
(* A model of the PyOxidizer repackaging engine                            *)
(* (pyoxidizer/src/pyrepackager/repackage.rs): the blob writer, the rule   *)
(* resolver, the resource reducer and the config.c generator.              *)
(*                                                                         *)
(* Strings that the code inspects byte by byte (module names, whitelist    *)
(* lines) are sequences of UTF-8 bytes; Utf8 is the table of the literals  *)
(* used.  BTreeMap<String, V> is a function whose iteration order is the   *)
(* ascending byte-wise order of its keys (SortedKeys).                     *)
(***************************************************************************)
EXTENDS Integers, Sequences, FiniteSets, TLC

VARIABLES
    \* ---- write_blob_entries ----
    entries,        \* &[BlobEntry]: the entries handed to write_blob_entries
    entry_sizes,    \* the same call for entries too large to enumerate: only
                    \* (name.len(), data.len()) of each entry, as usize values
    dest,           \* the bytes written to the writer so far
    blob_result,    \* "none" before the call, then the io::Result returned
    \* ---- resolve_python_resources and what follows it in process_config ----
    target_os,          \* cfg!(target_os) of the build
    dist,               \* dist: &PythonDistributionInfo
    pc,                 \* "idle"; "importlib": process_config is about to call
                        \* derive_importlib; "staging": in the rule loop (line
                        \* 573); "compiling": before line 679; "resolved":
                        \* PythonResources returned; "written": write_blobs
                        \* returned; "linked": link_libpython returned;
                        \* "built": run_from_build returned; "panicked": the
                        \* build failed
    rule_count,         \* number of rules of config.python_packaging taken so far
    packaging,          \* the rule taken last (loop variable of line 573)
    pip,                \* what the pip child of that rule did ("none": no child)
    res,                \* the Vec<PythonResourceEntry> resolved for `packaging`
    extension_modules,  \* BTreeMap<String, ExtensionModule>
    sources,            \* BTreeMap<String, Vec<u8>>
    bytecode_requests,  \* BTreeMap<String, (Vec<u8>, i32)>
    resources,          \* BTreeMap<String, Vec<u8>>
    read_files,         \* Vec<PathBuf>
    compile_log,        \* the compiler.compile calls made, in order
    module_bytecodes,   \* PythonResources.module_bytecodes
    all_modules,        \* PythonResources.all_modules, in iteration order
    config_c,           \* the lines of make_config_c's result
    importlib,          \* the ImportlibData derive_importlib returned
    out_dir_libs,       \* the lib<name>.a files link_libpython copied to out_dir
    libpython_info,     \* the LibpythonInfo link_libpython returned, if any
    blobs,              \* the files write_blobs wrote to out_dir, if it ran
    pythonXY_objects,   \* the objects compiled into pythonXY (build.object calls)
    embedded,           \* the EmbeddedPythonConfig process_config returned, if any
    stdout,             \* the cargo: lines run_from_build printed so far
    children,           \* the bytecode compiler children spawned so far, in
                        \* order: the names each compiled, whether it was dropped
    \* ---- PackageArchive::install (tar.rs) ----
    manifest,           \* self.manifest: the files of the archive, path to data
    components,         \* self.components
    install_pc,         \* "idle"; "component": at the head of the loop of line
                        \* 105; "files": in the loop of line 120; "ok", "err":
                        \* install returned
    component_index,    \* index in components of the component in process
    files_left,         \* the files of that component not yet written
    dest_dir,           \* the files under dest_dir, path to data
    written,            \* the write_to_path calls made, in order
    install_error       \* the error install returned, if any

blob_vars == <<entries, entry_sizes, dest, blob_result>>

staging_vars == <<extension_modules, sources, bytecode_requests, resources>>

resolve_vars ==
    <<target_os, dist, pc, rule_count, packaging, pip, res,
      extension_modules, sources, bytecode_requests, resources, read_files,
      compile_log, module_bytecodes, all_modules, config_c, importlib,
      out_dir_libs, libpython_info, blobs, pythonXY_objects, embedded, stdout,
      children>>

output_vars == <<blobs, pythonXY_objects, embedded, stdout>>

install_vars ==
    <<manifest, components, install_pc, component_index, files_left, dest_dir,
      written, install_error>>

vars == <<blob_vars, resolve_vars, install_vars>>

-----------------------------------------------------------------------------
(* Strings as UTF-8 bytes (String::as_bytes)                               *)

Utf8 ==
   ("" :> <<>>)
   @@ ("a" :> <<97>>)
   @@ ("bb" :> <<98, 98>>)
   @@ ("json" :> <<106, 115, 111, 110>>)
   @@ ("json.tests" :> <<106, 115, 111, 110, 46, 116, 101, 115, 116, 115>>)
   @@ ("json.tests.test_foo" :> <<106, 115, 111, 110, 46, 116, 101, 115, 116, 115, 46, 116, 101, 115, 116, 95, 102, 111, 111>>)
   @@ ("test" :> <<116, 101, 115, 116>>)
   @@ ("test.bad" :> <<116, 101, 115, 116, 46, 98, 97, 100>>)
   @@ ("testing" :> <<116, 101, 115, 116, 105, 110, 103>>)
   @@ ("foo" :> <<102, 111, 111>>)
   @@ ("foo.bar" :> <<102, 111, 111, 46, 98, 97, 114>>)
   @@ ("foo.bar.baz" :> <<102, 111, 111, 46, 98, 97, 114, 46, 98, 97, 122>>)
   @@ ("foo.barbell" :> <<102, 111, 111, 46, 98, 97, 114, 98, 101, 108, 108>>)
   @@ ("_crypt" :> <<95, 99, 114, 121, 112, 116>>)
   @@ ("_io" :> <<95, 105, 111>>)
   @@ ("_ssl" :> <<95, 115, 115, 108>>)
   @@ ("atexit" :> <<97, 116, 101, 120, 105, 116>>)
   @@ ("readline" :> <<114, 101, 97, 100, 108, 105, 110, 101>>)
   @@ ("zlib" :> <<122, 108, 105, 98>>)
   @@ ("bsddb.test" :> <<98, 115, 100, 100, 98, 46, 116, 101, 115, 116>>)
   @@ ("ctypes.test" :> <<99, 116, 121, 112, 101, 115, 46, 116, 101, 115, 116>>)
   @@ ("distutils.tests" :> <<100, 105, 115, 116, 117, 116, 105, 108, 115, 46, 116, 101, 115, 116, 115>>)
   @@ ("email.test" :> <<101, 109, 97, 105, 108, 46, 116, 101, 115, 116>>)
   @@ ("idlelib.idle_test" :> <<105, 100, 108, 101, 108, 105, 98, 46, 105, 100, 108, 101, 95, 116, 101, 115, 116>>)
   @@ ("lib-tk.test" :> <<108, 105, 98, 45, 116, 107, 46, 116, 101, 115, 116>>)
   @@ ("lib2to3.tests" :> <<108, 105, 98, 50, 116, 111, 51, 46, 116, 101, 115, 116, 115>>)
   @@ ("sqlite3.test" :> <<115, 113, 108, 105, 116, 101, 51, 46, 116, 101, 115, 116>>)
   @@ ("tkinter.test" :> <<116, 107, 105, 110, 116, 101, 114, 46, 116, 101, 115, 116>>)
   @@ ("unittest.test" :> <<117, 110, 105, 116, 116, 101, 115, 116, 46, 116, 101, 115, 116>>)
   @@ ("nis" :> <<110, 105, 115>>)
   @@ ("_curses" :> <<95, 99, 117, 114, 115, 101, 115>>)
   @@ ("_curses_panel" :> <<95, 99, 117, 114, 115, 101, 115, 95, 112, 97, 110, 101, 108>>)
   @@ ("#" :> <<35>>)
   @@ ("# comment" :> <<35, 32, 99, 111, 109, 109, 101, 110, 116>>)
   @@ ("." :> <<46>>)
   @@ ("importlib._bootstrap" :> <<105, 109, 112, 111, 114, 116, 108, 105, 98, 46, 95, 98, 111, 111, 116, 115, 116, 114, 97, 112>>)
   @@ ("importlib._bootstrap_external" :> <<105, 109, 112, 111, 114, 116, 108, 105, 98, 46, 95, 98, 111, 111, 116, 115, 116, 114, 97, 112, 95, 101, 120, 116, 101, 114, 110, 97, 108>>)
   @@ ("<frozen importlib._bootstrap>" :> <<60, 102, 114, 111, 122, 101, 110, 32, 105, 109, 112, 111, 114, 116, 108, 105, 98, 46, 95, 98, 111, 111, 116, 115, 116, 114, 97, 112, 62>>)
   @@ ("<frozen importlib._bootstrap_external>" :> <<60, 102, 114, 111, 122, 101, 110, 32, 105, 109, 112, 111, 114, 116, 108, 105, 98, 46, 95, 98, 111, 111, 116, 115, 116, 114, 97, 112, 95, 101, 120, 116, 101, 114, 110, 97, 108, 62>>)
   @@ ("crypt" :> <<99, 114, 121, 112, 116>>)
   @@ ("ssl" :> <<115, 115, 108>>)
   @@ ("m" :> <<109>>)
   @@ ("z" :> <<122>>)
   @@ ("dl" :> <<100, 108>>)
   @@ ("Carbon" :> <<67, 97, 114, 98, 111, 110>>)
   @@ ("AppKit" :> <<65, 112, 112, 75, 105, 116>>)
   @@ ("pthread" :> <<112, 116, 104, 114, 101, 97, 100>>)
   @@ ("crypto" :> <<99, 114, 121, 112, 116, 111>>)
   @@ ("util" :> <<117, 116, 105, 108>>)
   @@ ("cargo" :> <<99, 97, 114, 103, 111>>)
   @@ ("rustc" :> <<114, 117, 115, 116, 99>>)
   @@ ("manifest.in" :> <<109, 97, 110, 105, 102, 101, 115, 116, 46, 105, 110>>)
   @@ ("file" :> <<102, 105, 108, 101>>)
   @@ ("dir" :> <<100, 105, 114>>)
   @@ ("link" :> <<108, 105, 110, 107>>)
   @@ ("note" :> <<110, 111, 116, 101>>)
   @@ ("bin/tool" :> <<98, 105, 110, 47, 116, 111, 111, 108>>)
   @@ ("lib/libtool.so" :> <<108, 105, 98, 47, 108, 105, 98, 116, 111, 111, 108, 46, 115, 111>>)
   @@ ("lib/gone.so" :> <<108, 105, 98, 47, 103, 111, 110, 101, 46, 115, 111>>)
   @@ ("share/doc" :> <<115, 104, 97, 114, 101, 47, 100, 111, 99>>)

\* str::starts_with on byte strings
StartsWith(s, prefix) ==
    /\ Len(prefix) <= Len(s)
    /\ SubSeq(s, 1, Len(prefix)) = prefix

\* Ord for String / Vec<u8>: lexicographic on bytes, a proper prefix is less
RECURSIVE BytesLess(_, _)
BytesLess(s, t) ==
    IF t = <<>> THEN FALSE
    ELSE IF s = <<>> THEN TRUE
    ELSE IF Head(s) # Head(t) THEN Head(s) < Head(t)
    ELSE BytesLess(Tail(s), Tail(t))

\* The least element of a non-empty set of byte strings
MinBytes(S) == CHOOSE x \in S : \A y \in S \ {x} : BytesLess(x, y)

\* Iteration order of a BTreeMap / BTreeSet over the key set S
RECURSIVE SortedKeys(_)
SortedKeys(S) ==
    IF S = {} THEN <<>>
    ELSE LET m == MinBytes(S) IN <<m>> \o SortedKeys(S \ {m})

\* Concatenation of a sequence of byte strings
RECURSIVE Flatten(_)
Flatten(ss) == IF ss = <<>> THEN <<>> ELSE Head(ss) \o Flatten(Tail(ss))

-----------------------------------------------------------------------------
(* Machine integers.  TLC's integers are 32-bit signed, so a usize is kept *)
(* as four 16-bit limbs, least significant first, and a u32 as two.        *)

LimbBase == 65536

ToUSize(n) == <<n % LimbBase, n \div LimbBase, 0, 0>>

\* `x as u32` on a usize: the low 32 bits, the rest is dropped silently
AsU32(u) == SubSeq(u, 1, 2)

\* WriteBytesExt::write_u32::<LittleEndian>
WriteU32LE(w) ==
    <<w[1] % 256, w[1] \div 256, w[2] % 256, w[2] \div 256>>

-----------------------------------------------------------------------------
(* write_blob_entries                                                      *)

\* MaxEntries bounds the number of entries of one call
MaxEntries == 2

EntryNames == {Utf8[""], Utf8["a"], Utf8["bb"]}
EntryData == {<<>>, <<3>>, <<1, 2>>, <<255, 0>>}
BlobEntry == [name : EntryNames, data : EntryData]

\* usize lengths around the u32 limit: 1, 2^32 - 1, 2^32, 2^32 + 2
LargeSizes == {<<1, 0, 0, 0>>, <<65535, 65535, 0, 0>>, <<0, 0, 1, 0>>, <<2, 0, 1, 0>>}
EntrySize == [name_len : LargeSizes, data_len : LargeSizes]

SeqsUpTo(S, n) == UNION {[1..k -> S] : k \in 0..n}

\* (name_bytes.len(), entry.data.len()) of every entry
SizesOf(es) ==
    [i \in 1..Len(es) |->
        [name_len |-> ToUSize(Len(es[i].name)), data_len |-> ToUSize(Len(es[i].data))]]

\* mutant of BlobIndex: the two lengths of a pair written in the wrong order
BlobIndexSwapped(sizes) ==
    WriteU32LE(AsU32(ToUSize(Len(sizes))))
    \o Flatten([i \in 1..Len(sizes) |->
                  WriteU32LE(AsU32(sizes[i].data_len))
                  \o WriteU32LE(AsU32(sizes[i].name_len))])

\* the count and the first loop, which writes the index: lines 769-775
BlobIndex(sizes) ==
    WriteU32LE(AsU32(ToUSize(Len(sizes))))
    \o Flatten([i \in 1..Len(sizes) |->
                  WriteU32LE(AsU32(sizes[i].name_len))
                  \o WriteU32LE(AsU32(sizes[i].data_len))])

\* the names loop, lines 777-780
BlobNames(es) == Flatten([i \in 1..Len(es) |-> es[i].name])

\* the data loop, lines 782-784
BlobData(es) == Flatten([i \in 1..Len(es) |-> es[i].data])

\* mutant of write_blob_entries: each name followed directly by its data
write_blob_entries_interleaved(es) ==
    BlobIndex(SizesOf(es)) \o Flatten([i \in 1..Len(es) |-> es[i].name \o es[i].data])

write_blob_entries(es) == BlobIndex(SizesOf(es)) \o BlobNames(es) \o BlobData(es)

-----------------------------------------------------------------------------
(* Data of the resolver: options, maps, the distribution, the file system  *)

\* Option<T>: None is the empty sequence, Some(x) the one-element sequence
None == <<>>
Some(x) == <<x>>

\* BTreeMap: new, insert, remove
EmptyMap == [k \in {} |-> k]
MapInsert(m, k, v) == [x \in DOMAIN m \cup {k} |-> IF x = k THEN v ELSE m[x]]
MapRemove(m, k) == [x \in DOMAIN m \ {k} |-> m[x]]

\* dist::LibraryDepends
LibraryDepends(name, framework, system, static_path, dynamic_path) ==
    [name |-> Utf8[name], framework |-> framework, system |-> system,
     static_path |-> static_path, dynamic_path |-> dynamic_path]

\* dist::ExtensionModule
ExtensionModule(module, variant, builtin_default, required, init_fn, links) ==
    [module |-> Utf8[module], variant |-> variant,
     builtin_default |-> builtin_default, required |-> required,
     init_fn |-> init_fn, links |-> links,
     object_paths |-> <<<<"build", module, variant>>>>]

\* fs::read(path): a file's content is identified by the file
fs_read(path) == [content_of |-> path]

\* A distribution with seven extension modules (scenarios S1, S4, S5, S6) and
\* a standard library with test packages (scenario S3); version 3.7.4.  It
\* ships libssl, libcrypto, libz and libdl, but neither libreadline nor libm.
DistFull ==
    [os |-> "linux",
     version |-> <<"3", ".", "7", ".", "4">>,
     py_modules |->
        [n \in {Utf8["json"], Utf8["json.tests"], Utf8["json.tests.test_foo"],
                Utf8["test"], Utf8["test.bad"], Utf8["testing"],
                Utf8["importlib._bootstrap"], Utf8["importlib._bootstrap_external"]} |->
            <<"dist", "Lib", n>>],
     extension_modules |->
        (Utf8["_crypt"] :> <<ExtensionModule("_crypt", "default", FALSE, TRUE,
                               Some("PyInit__crypt"),
                               <<LibraryDepends("crypt", FALSE, TRUE, None, None),
                                 LibraryDepends("Carbon", TRUE, FALSE, None, None),
                                 LibraryDepends("dl", FALSE, FALSE, Some("libdl.a"), None)>>)>>)
        @@ (Utf8["_io"] :> <<ExtensionModule("_io", "default", TRUE, FALSE,
                               Some("PyInit__io"),
                               <<LibraryDepends("util", FALSE, FALSE, Some("libutil.a"), None)>>)>>)
        @@ (Utf8["_ssl"] :> <<ExtensionModule("_ssl", "openssl-1.1", FALSE, FALSE,
                               Some("PyInit__ssl"),
                               <<LibraryDepends("ssl", FALSE, FALSE, Some("libssl.a"), None),
                                 LibraryDepends("crypto", FALSE, FALSE, None, Some("libcrypto.so"))>>),
                              ExtensionModule("_ssl", "openssl-3", FALSE, FALSE,
                               Some("PyInit__ssl"), <<>>),
                              ExtensionModule("_ssl", "boringssl", FALSE, FALSE,
                               Some("PyInit__ssl"), <<>>)>>)
        @@ (Utf8["atexit"] :> <<ExtensionModule("atexit", "default", FALSE, FALSE,
                               None, <<>>)>>)
        @@ (Utf8["nis"] :> <<ExtensionModule("nis", "default", TRUE, FALSE,
                               Some("NULL"), <<>>)>>)
        @@ (Utf8["readline"] :> <<ExtensionModule("readline", "default", FALSE, FALSE,
                               Some("PyInit_readline"),
                               <<LibraryDepends("readline", FALSE, FALSE, Some("libreadline.a"), None)>>)>>)
        @@ (Utf8["zlib"] :> <<ExtensionModule("zlib", "default", FALSE, TRUE,
                               Some("PyInit_zlib"),
                               <<LibraryDepends("z", FALSE, FALSE, Some("libz.a"), None),
                                 LibraryDepends("m", FALSE, FALSE, None, Some("libm.so"))>>),
                              ExtensionModule("zlib", "bundled", FALSE, TRUE,
                               Some("PyInit_zlib"), <<>>)>>),
     objs_core |->
        <<[rel_path |-> <<"Modules", "config.o">>, fs_path |-> <<"dist", "o", 1>>],
          [rel_path |-> <<"Modules", "myconfig.o">>, fs_path |-> <<"dist", "o", 2>>],
          [rel_path |-> <<"Python", "ceval.o">>, fs_path |-> <<"dist", "o", 3>>],
          [rel_path |-> <<"build", "Modules", "config.o">>, fs_path |-> <<"dist", "o", 4>>],
          [rel_path |-> <<"xModules", "config.o">>, fs_path |-> <<"dist", "o", 5>>]>>,
     links_core |->
        <<LibraryDepends("pthread", FALSE, TRUE, None, None),
          LibraryDepends("AppKit", TRUE, FALSE, None, None),
          LibraryDepends("util", FALSE, FALSE, Some("libutil.a"), None)>>,
     libraries |->
        (Utf8["ssl"] :> <<"dist", "lib", "libssl.a">>)
        @@ (Utf8["crypto"] :> <<"dist", "lib", "libcrypto.a">>)
        @@ (Utf8["z"] :> <<"dist", "lib", "libz.a">>)
        @@ (Utf8["dl"] :> <<"dist", "lib", "libdl.a">>)]

\* A distribution that lists no extension module at all; version 3.10.1,
\* whose virtualenvs have Lib/python3.10/site-packages.  objs_core, a
\* BTreeMap<PathBuf, PathBuf>, is given as its entries in key order, a path
\* as its components.
DistBare ==
    [os |-> "windows",
     version |-> <<"3", ".", "1", "0", ".", "1">>,
     py_modules |->
        [n \in {Utf8["json"], Utf8["test"],
                Utf8["importlib._bootstrap"], Utf8["importlib._bootstrap_external"]} |->
            <<"dist", "Lib", n>>],
     extension_modules |-> EmptyMap,
     objs_core |->
        <<[rel_path |-> <<"Modules", "config.o">>, fs_path |-> <<"dist", "o", 1>>],
          [rel_path |-> <<"Python", "ceval.o">>, fs_path |-> <<"dist", "o", 3>>]>>,
     links_core |-> <<>>,
     libraries |-> EmptyMap]

\* the builds considered: cfg!(target_os) and the distribution
Platforms == {<<"linux", DistFull>>, <<"macos", DistFull>>, <<"windows", DistBare>>}

\* One scanned file of fsscan::find_python_resources
ScannedResource(name, flavor, path) == [name |-> Utf8[name], flavor |-> flavor, path |-> path]

\* The directory trees of the file system and what find_python_resources
\* yields for each (fsscan is outside this file: a directory walk that
\* classifies each file and derives its dotted module name)
SitePackages ==
    <<ScannedResource("foo", "Source", <<"site", "foo/__init__.py">>),
      ScannedResource("foo.bar", "Source", <<"site", "foo/bar/__init__.py">>),
      ScannedResource("foo.bar.baz", "Source", <<"site", "foo/bar/baz.py">>),
      ScannedResource("foo.barbell", "Source", <<"site", "foo/barbell.py">>),
      ScannedResource("foo", "Resource", <<"site", "foo/data.txt">>),
      ScannedResource("json", "Source", <<"site", "json.py">>)>>

find_python_resources(path) ==
    IF path \in {<<"venv", "lib", <<"python", "3", ".", "7">>, "site-packages">>,
                 <<"venv", "Lib", <<"python", "3", ".", "1", "0">>, "site-packages">>,
                 <<"pkgroot">>}
    THEN SitePackages
    ELSE <<>>

\* What a `pip install --target <tmp>` child leaves in the temporary directory
PipOutcomes == {"spawn_failed", "exit_0", "exit_1"}

PipTempDir(outcome) ==
    IF outcome = "exit_0"
    THEN <<ScannedResource("a", "Source", <<"tmp", "a.py">>),
           ScannedResource("foo", "Source", <<"tmp", "foo/__init__.py">>)>>
    ELSE IF outcome = "exit_1"
    THEN <<ScannedResource("a", "Source", <<"tmp", "a.py">>)>>
    ELSE <<>>

\* The resource names files of the file system, as lines
Files ==
    ("F1" :> <<Utf8["# comment"], Utf8[""], Utf8["json"], Utf8["json.tests"],
               Utf8["json.tests.test_foo"], Utf8["foo.barbell"], Utf8["zlib"]>>)
    @@ ("F2" :> <<Utf8["test"], Utf8["foo"], Utf8["a"], Utf8["_ssl"], Utf8["#"],
                  Utf8["readline"], Utf8["atexit"]>>)

\* glob::glob(pattern): the paths that match
findglob(pattern) ==
    IF pattern = "F*" THEN <<"F1", "F2">>
    ELSE <<>>

\* config::PythonPackaging, the rules a configuration is drawn from
PackagingRules ==
    [kind : {"StdlibExtensionsPolicy"},
     policy : {"minimal", "all", "no-libraries", "everything"}]
    \cup [kind : {"StdlibExtensionsExplicitIncludes"},
          includes : {<<Utf8["zlib"], Utf8["_curses"], Utf8["readline"]>>}]
    \cup [kind : {"StdlibExtensionsExplicitExcludes"},
          excludes : {<<Utf8["_io"], Utf8["readline"], Utf8["nis"]>>}]
    \cup {[kind |-> "StdlibExtensionVariant", extension |-> Utf8["_ssl"], variant |-> "openssl-3"],
          [kind |-> "StdlibExtensionVariant", extension |-> Utf8["_ssl"], variant |-> "libressl"],
          [kind |-> "StdlibExtensionVariant", extension |-> Utf8["_curses"], variant |-> "default"]}
    \cup {[kind |-> "Stdlib", optimize_level |-> 0,
           exclude_test_modules |-> x[1], include_source |-> x[2]] :
              x \in {<<TRUE, TRUE>>, <<FALSE, TRUE>>, <<TRUE, FALSE>>}}
    \cup {[kind |-> "Virtualenv", path |-> "venv", optimize_level |-> 1,
           excludes |-> x[1], include_source |-> x[2]] :
              x \in {<<<<>>, TRUE>>, <<<<Utf8["foo.bar"]>>, FALSE>>}}
    \cup {[kind |-> "PackageRoot", path |-> "pkgroot", optimize_level |-> 2,
           packages |-> x[1], excludes |-> x[2], include_source |-> TRUE] :
              x \in {<<<<Utf8["foo"]>>, <<Utf8["foo.bar"]>>>>,
                     <<<<Utf8["foo.bar"], Utf8["json"]>>, <<>>>>}}
    \cup [kind : {"PipInstallSimple"}, package : {"a"}, optimize_level : {0},
          include_source : {TRUE}]
    \cup [kind : {"FilterFileInclude"}, path : {"F1", "F2", "missing"}]
    \cup [kind : {"FilterFilesInclude"}, glob : {"F*", "none*"}]

NoRule == [kind |-> "none"]

-----------------------------------------------------------------------------
(* Tables and helpers of repackage.rs                                      *)

STDLIB_TEST_PACKAGES ==
    <<Utf8["bsddb.test"], Utf8["ctypes.test"], Utf8["distutils.tests"],
      Utf8["email.test"], Utf8["idlelib.idle_test"], Utf8["json.tests"],
      Utf8["lib-tk.test"], Utf8["lib2to3.tests"], Utf8["sqlite3.test"],
      Utf8["test"], Utf8["tkinter.test"], Utf8["unittest.test"]>>

OS_IGNORE_EXTENSIONS ==
    IF target_os = "linux" THEN <<Utf8["_crypt"], Utf8["nis"]>>
    ELSE IF target_os = "macos"
    THEN <<Utf8["_curses"], Utf8["_curses_panel"], Utf8["readline"]>>
    ELSE <<>>

OS_IGNORE_LIBRARIES ==
    IF target_os \in {"linux", "macos"} THEN <<Utf8["dl"], Utf8["m"]>> ELSE <<>>

Range(f) == {f[i] : i \in DOMAIN f}

is_stdlib_test_package(name) ==
    \E i \in 1..Len(STDLIB_TEST_PACKAGES) :
        LET prefix == STDLIB_TEST_PACKAGES[i] \o Utf8["."]
        IN  StartsWith(name, prefix)

\* Result<BTreeSet<String>, IOError>: the lines of the file that are neither
\* empty nor start with '#'
read_resource_names_file(path) ==
    IF path \notin DOMAIN Files
    THEN [ok |-> FALSE, names |-> {}]
    ELSE [ok |-> TRUE,
          names |-> {line \in Range(Files[path]) :
                        ~(StartsWith(line, Utf8["#"]) \/ line = <<>>)}]

\* mutant of filter_btreemap: stops after the first key it removes
filter_btreemap_first_only(m, f) ==
    LET drop == DOMAIN m \ f
    IN  IF drop = {} THEN m ELSE MapRemove(m, MinBytes(drop))

filter_btreemap(m, f) == [key \in {k \in DOMAIN m : k \in f} |-> m[key]]

\* PythonResourceEntry { action: Add, resource }
Add(resource) == [action |-> "Add", resource |-> resource]

AddExtensionModule(name, module) ==
    Add([type |-> "ExtensionModule", name |-> name, module |-> module])

\* the pushes shared by the Stdlib, Virtualenv, PackageRoot and
\* PipInstallSimple arms: ModuleSource when include_source, then ModuleBytecode
ModuleEntries(name, source, optimize_level, include_source) ==
    (IF include_source
     THEN <<Add([type |-> "ModuleSource", name |-> name, source |-> source])>>
     ELSE <<>>)
    \o <<Add([type |-> "ModuleBytecode", name |-> name, source |-> source,
              optimize_level |-> optimize_level])>>

\* mutant of PatternMatches: the prefix test without the trailing dot
PatternMatchesNoDot(name, pattern) ==
    name = pattern \/ StartsWith(name, pattern)

\* the test of lines 401-403, 453-455 and 461-463
PatternMatches(name, pattern) ==
    LET prefix == pattern \o Utf8["."]
    IN  name = pattern \/ StartsWith(name, prefix)

-----------------------------------------------------------------------------
(* resolve_python_packaging: one operator per arm of the match.  The       *)
(* result is the vector `res`, or a panic.                                 *)

Returned(es) == [panic |-> FALSE, res |-> es]
Panicked == [panic |-> TRUE, res |-> <<>>]

MinOf(S) == CHOOSE i \in S : \A j \in S : i <= j

\* mutant of PolicyEntries: "minimal" looks at builtin_default only
PolicyEntriesBuiltinOnly(policy, name, variants) ==
    IF policy = "minimal"
    THEN IF variants[1].builtin_default
         THEN <<AddExtensionModule(name, variants[1])>>
         ELSE <<>>
    ELSE IF policy = "all"
    THEN <<AddExtensionModule(name, variants[1])>>
    ELSE LET unlinked == {i \in 1..Len(variants) : variants[i].links = <<>>}
         IN  IF unlinked = {} THEN <<>>
             ELSE <<AddExtensionModule(name, variants[MinOf(unlinked)])>>

\* mutant of PolicyEntries: "no-libraries" without the break of line 283
PolicyEntriesNoBreak(policy, name, variants) ==
    IF policy = "minimal"
    THEN IF variants[1].builtin_default \/ variants[1].required
         THEN <<AddExtensionModule(name, variants[1])>>
         ELSE <<>>
    ELSE IF policy = "all"
    THEN <<AddExtensionModule(name, variants[1])>>
    ELSE Flatten([i \in 1..Len(variants) |->
             IF variants[i].links = <<>>
             THEN <<AddExtensionModule(name, variants[i])>>
             ELSE <<>>])

\* what one policy pushes for one extension name: lines 246-285
PolicyEntries(policy, name, variants) ==
    IF policy = "minimal"
    THEN LET em == variants[1]
         IN  IF em.builtin_default \/ em.required
             THEN <<AddExtensionModule(name, em)>>
             ELSE <<>>
    ELSE IF policy = "all"
    THEN <<AddExtensionModule(name, variants[1])>>
    ELSE LET unlinked == {i \in 1..Len(variants) : variants[i].links = <<>>}
         IN  IF unlinked = {} THEN <<>>
             ELSE <<AddExtensionModule(name, variants[MinOf(unlinked)])>>

\* lines 243-292: the policy string is matched inside the loop over the
\* distribution's extension modules
StdlibExtensionsPolicy(package, d) ==
    LET names == SortedKeys(DOMAIN d.extension_modules)
    IN  IF package.policy \in {"minimal", "all", "no-libraries"}
        THEN Returned(Flatten([i \in 1..Len(names) |->
                 PolicyEntries(package.policy, names[i], d.extension_modules[names[i]])]))
        ELSE IF names = <<>> THEN Returned(<<>>) ELSE Panicked

\* mutant of StdlibExtensionsExplicitIncludes: a requested name is indexed,
\* which panics when the distribution does not have it
StdlibExtensionsExplicitIncludesIndexed(package, d) ==
    IF \E i \in 1..Len(package.includes) :
            package.includes[i] \notin DOMAIN d.extension_modules
    THEN Panicked
    ELSE Returned([i \in 1..Len(package.includes) |->
            AddExtensionModule(package.includes[i],
                               d.extension_modules[package.includes[i]][1])])

\* lines 294-306
StdlibExtensionsExplicitIncludes(package, d) ==
    Returned(Flatten([i \in 1..Len(package.includes) |->
        LET name == package.includes[i]
        IN  IF name \in DOMAIN d.extension_modules
            THEN <<AddExtensionModule(name, d.extension_modules[name][1])>>
            ELSE <<>>]))

\* lines 308-322
StdlibExtensionsExplicitExcludes(package, d) ==
    LET names == SortedKeys(DOMAIN d.extension_modules)
    IN  Returned(Flatten([i \in 1..Len(names) |->
            IF names[i] \in Range(package.excludes) THEN <<>>
            ELSE <<AddExtensionModule(names[i], d.extension_modules[names[i]][1])>>]))

\* mutant of StdlibExtensionVariant: the first variant is taken
StdlibExtensionVariantFirst(package, d) ==
    IF package.extension \notin DOMAIN d.extension_modules
    THEN Panicked
    ELSE LET variants == d.extension_modules[package.extension]
         IN  IF \E i \in 1..Len(variants) : variants[i].variant = package.variant
             THEN Returned(<<AddExtensionModule(package.extension, variants[1])>>)
             ELSE Panicked

\* lines 324-342: indexing the map panics for a missing key; every variant
\* with the tag is pushed
StdlibExtensionVariant(package, d) ==
    IF package.extension \notin DOMAIN d.extension_modules
    THEN Panicked
    ELSE LET variants == d.extension_modules[package.extension]
             found == Flatten([i \in 1..Len(variants) |->
                         IF variants[i].variant = package.variant
                         THEN <<AddExtensionModule(package.extension, variants[i])>>
                         ELSE <<>>])
         IN  IF found = <<>> THEN Panicked ELSE Returned(found)

\* lines 344-376
Stdlib(package, d) ==
    LET names == SortedKeys(DOMAIN d.py_modules)
    IN  Returned(Flatten([i \in 1..Len(names) |->
            IF is_stdlib_test_package(names[i]) /\ package.exclude_test_modules
            THEN <<>>
            ELSE ModuleEntries(names[i], fs_read(d.py_modules[names[i]]),
                               package.optimize_level, package.include_source)]))

\* lines 384-393
VirtualenvPackagesPath(package, d) ==
    <<package.path,
      IF d.os = "windows" THEN "Lib" ELSE "lib",
      <<"python">> \o SubSeq(d.version, 1, 3),
      "site-packages">>

\* lines 395-435
Virtualenv(package, d) ==
    LET scanned == find_python_resources(VirtualenvPackagesPath(package, d))
    IN  Returned(Flatten([i \in 1..Len(scanned) |->
            LET resource == scanned[i]
                relevant == ~\E e \in 1..Len(package.excludes) :
                                PatternMatches(resource.name, package.excludes[e])
            IN  IF resource.flavor = "Source" /\ relevant
                THEN ModuleEntries(resource.name, fs_read(resource.path),
                                   package.optimize_level, package.include_source)
                ELSE <<>>]))

\* lines 445-495
PackageRoot(package, d) ==
    LET scanned == find_python_resources(<<package.path>>)
    IN  Returned(Flatten([i \in 1..Len(scanned) |->
            LET resource == scanned[i]
                wanted == \E k \in 1..Len(package.packages) :
                              PatternMatches(resource.name, package.packages[k])
                excluded == \E e \in 1..Len(package.excludes) :
                                PatternMatches(resource.name, package.excludes[e])
                relevant == IF excluded THEN FALSE ELSE wanted
            IN  IF resource.flavor = "Source" /\ relevant
                THEN ModuleEntries(resource.name, fs_read(resource.path),
                                   package.optimize_level, package.include_source)
                ELSE <<>>]))

\* lines 498-548: only a child that cannot be started panics (`expect` on
\* the io::Result of status()); the ExitStatus itself is dropped
PipInstallSimple(package, d, outcome) ==
    IF outcome = "spawn_failed"
    THEN Panicked
    ELSE LET scanned == PipTempDir(outcome)
         IN  Returned(Flatten([i \in 1..Len(scanned) |->
                 IF scanned[i].flavor = "Source"
                 THEN ModuleEntries(scanned[i].name, fs_read(scanned[i].path),
                                    package.optimize_level, package.include_source)
                 ELSE <<>>]))

resolve_python_packaging(package, d, outcome) ==
    CASE package.kind = "StdlibExtensionsPolicy" -> StdlibExtensionsPolicy(package, d)
      [] package.kind = "StdlibExtensionsExplicitIncludes" ->
            StdlibExtensionsExplicitIncludes(package, d)
      [] package.kind = "StdlibExtensionsExplicitExcludes" ->
            StdlibExtensionsExplicitExcludes(package, d)
      [] package.kind = "StdlibExtensionVariant" -> StdlibExtensionVariant(package, d)
      [] package.kind = "Stdlib" -> Stdlib(package, d)
      [] package.kind = "Virtualenv" -> Virtualenv(package, d)
      [] package.kind = "PackageRoot" -> PackageRoot(package, d)
      [] package.kind = "PipInstallSimple" -> PipInstallSimple(package, d, outcome)
      [] package.kind \in {"FilterFileInclude", "FilterFilesInclude"} -> Returned(<<>>)

-----------------------------------------------------------------------------
(* resolve_python_resources                                                *)

\* MaxRules bounds the length of config.python_packaging
MaxRules == 3

Staging ==
    [extension_modules |-> extension_modules, sources |-> sources,
     bytecode_requests |-> bytecode_requests, resources |-> resources]

\* mutant of ApplyEntry: a bytecode request for a name already requested is
\* dropped instead of replacing the earlier one
ApplyEntryKeepFirst(st, entry) ==
    LET r == entry.resource
    IN  CASE entry.action = "Add" /\ r.type = "ExtensionModule" ->
                [st EXCEPT !.extension_modules = MapInsert(@, r.name, r.module)]
          [] entry.action = "Add" /\ r.type = "ModuleSource" ->
                [st EXCEPT !.sources = MapInsert(@, r.name, r.source)]
          [] entry.action = "Add" /\ r.type = "ModuleBytecode" ->
                IF r.name \in DOMAIN st.bytecode_requests THEN st
                ELSE [st EXCEPT !.bytecode_requests =
                        MapInsert(@, r.name, <<r.source, r.optimize_level>>)]
          [] OTHER -> st

\* mutant of ApplyEntry: an extension or a source that is staged already is
\* not replaced
ApplyEntryKeepStaged(st, entry) ==
    LET r == entry.resource
    IN  CASE entry.action = "Add" /\ r.type = "ExtensionModule" ->
                IF r.name \in DOMAIN st.extension_modules THEN st
                ELSE [st EXCEPT !.extension_modules = MapInsert(@, r.name, r.module)]
          [] entry.action = "Add" /\ r.type = "ModuleSource" ->
                IF r.name \in DOMAIN st.sources THEN st
                ELSE [st EXCEPT !.sources = MapInsert(@, r.name, r.source)]
          [] entry.action = "Add" /\ r.type = "ModuleBytecode" ->
                [st EXCEPT !.bytecode_requests =
                    MapInsert(@, r.name, <<r.source, r.optimize_level>>)]
          [] OTHER -> st

\* the match of lines 576-616 for one entry
ApplyEntry(st, entry) ==
    LET r == entry.resource
    IN  CASE entry.action = "Add" /\ r.type = "ExtensionModule" ->
                [st EXCEPT !.extension_modules = MapInsert(@, r.name, r.module)]
          [] entry.action = "Remove" /\ r.type = "ExtensionModule" ->
                [st EXCEPT !.extension_modules = MapRemove(@, r.name)]
          [] entry.action = "Add" /\ r.type = "ModuleSource" ->
                [st EXCEPT !.sources = MapInsert(@, r.name, r.source)]
          [] entry.action = "Remove" /\ r.type = "ModuleSource" ->
                [st EXCEPT !.sources = MapRemove(@, r.name)]
          [] entry.action = "Add" /\ r.type = "ModuleBytecode" ->
                [st EXCEPT !.bytecode_requests =
                    MapInsert(@, r.name, <<r.source, r.optimize_level>>)]
          [] entry.action = "Remove" /\ r.type = "ModuleBytecode" ->
                [st EXCEPT !.bytecode_requests = MapRemove(@, r.name)]
          [] entry.action = "Add" /\ r.type = "Resource" ->
                [st EXCEPT !.resources = MapInsert(@, r.name, r.data)]
          [] entry.action = "Remove" /\ r.type = "Resource" ->
                [st EXCEPT !.resources = MapRemove(@, r.name)]

\* the loop of lines 575-617
RECURSIVE ApplyEntries(_, _)
ApplyEntries(st, es) ==
    IF es = <<>> THEN st ELSE ApplyEntries(ApplyEntry(st, Head(es)), Tail(es))

\* mutant of FilterStaging: the bytecode requests are not filtered
FilterStagingKeepRequests(st, include_names) ==
    [extension_modules |-> filter_btreemap(st.extension_modules, include_names),
     sources |-> filter_btreemap(st.sources, include_names),
     bytecode_requests |-> st.bytecode_requests,
     resources |-> filter_btreemap(st.resources, include_names)]

\* the four filter_btreemap calls of lines 625-631 and 652-658
FilterStaging(st, include_names) ==
    [extension_modules |-> filter_btreemap(st.extension_modules, include_names),
     sources |-> filter_btreemap(st.sources, include_names),
     bytecode_requests |-> filter_btreemap(st.bytecode_requests, include_names),
     resources |-> filter_btreemap(st.resources, include_names)]

\* lines 619-659: what follows the entries of a rule
ApplyFilter(package, st, files) ==
    IF package.kind = "FilterFileInclude"
    THEN LET include_names == read_resource_names_file(package.path)
         IN  IF include_names.ok
             THEN [panic |-> FALSE, st |-> FilterStaging(st, include_names.names),
                   read_files |-> Append(files, package.path)]
             ELSE [panic |-> TRUE, st |-> st, read_files |-> files]
    ELSE IF package.kind = "FilterFilesInclude"
    THEN LET paths == findglob(package.glob)
             reads == [i \in 1..Len(paths) |-> read_resource_names_file(paths[i])]
         IN  IF \A i \in 1..Len(paths) : reads[i].ok
             THEN [panic |-> FALSE,
                   st |-> FilterStaging(st, UNION {reads[i].names : i \in 1..Len(paths)}),
                   read_files |-> files \o paths]
             ELSE [panic |-> TRUE, st |-> st, read_files |-> files]
    ELSE [panic |-> FALSE, st |-> st, read_files |-> files]

\* mutant of AddRequired: the first variant replaces what is staged
AddRequiredOverwrite(staged, d) ==
    LET forced == {name \in DOMAIN d.extension_modules :
                        \/ d.extension_modules[name][1].builtin_default
                        \/ d.extension_modules[name][1].required}
    IN  [name \in DOMAIN staged \cup forced |->
            IF name \in forced THEN d.extension_modules[name][1] ELSE staged[name]]

\* mutant of AddRequired: the loop of lines 664-671 left out
AddRequiredSkipped(staged, d) == staged

\* lines 664-671: first variants that are builtin_default or required are
\* inserted where the name is not staged
AddRequired(staged, d) ==
    LET missing == {name \in DOMAIN d.extension_modules :
                        /\ d.extension_modules[name][1].builtin_default
                           \/ d.extension_modules[name][1].required
                        /\ name \notin DOMAIN staged}
    IN  [name \in DOMAIN staged \cup missing |->
            IF name \in missing THEN d.extension_modules[name][1] ELSE staged[name]]

\* mutant of RemoveIgnored: a required or builtin_default extension is kept
RECURSIVE RemoveIgnoredOptional(_, _)
RemoveIgnoredOptional(staged, ignore) ==
    IF ignore = <<>> THEN staged
    ELSE RemoveIgnoredOptional(
            IF /\ Head(ignore) \in DOMAIN staged
               /\ \/ staged[Head(ignore)].required
                  \/ staged[Head(ignore)].builtin_default
            THEN staged
            ELSE MapRemove(staged, Head(ignore)),
            Tail(ignore))

\* lines 674-677
RECURSIVE RemoveIgnored(_, _)
RemoveIgnored(staged, ignore) ==
    IF ignore = <<>> THEN staged
    ELSE RemoveIgnored(MapRemove(staged, Head(ignore)), Tail(ignore))

\* Sources the distribution's interpreter cannot compile (the standard
\* library's test packages ship files with deliberate syntax errors)
BadSyntax == {fs_read(<<"dist", "Lib", Utf8["test.bad"]>>)}

\* BytecodeCompiler::compile (the compiler lives in bytecode.rs): Err for a
\* source that does not compile, else Ok with bytecode that is a function of
\* the three arguments
compile(source, name, optimize_level) ==
    IF source \in BadSyntax
    THEN [ok |-> FALSE]
    ELSE [ok |-> TRUE,
          bytecode |-> [bytecode_of |-> source, name |-> name,
                        optimize_level |-> optimize_level]]

\* BTreeSet::insert on the set kept in iteration order
RECURSIVE BTreeSetInsert(_, _)
BTreeSetInsert(set, x) ==
    IF set = <<>> THEN <<x>>
    ELSE IF Head(set) = x THEN set
    ELSE IF BytesLess(x, Head(set)) THEN <<x>> \o set
    ELSE <<Head(set)>> \o BTreeSetInsert(Tail(set), x)

RECURSIVE BTreeSetInsertAll(_, _)
BTreeSetInsertAll(set, xs) ==
    IF xs = <<>> THEN set ELSE BTreeSetInsertAll(BTreeSetInsert(set, Head(xs)), Tail(xs))

\* mutant of AllModules: the loop over bytecodes.keys() left out
AllModulesSourcesOnly(srcs, bytecodes) ==
    BTreeSetInsertAll(<<>>, SortedKeys(DOMAIN srcs))

\* lines 694-700
AllModules(srcs, bytecodes) ==
    BTreeSetInsertAll(BTreeSetInsertAll(<<>>, SortedKeys(DOMAIN srcs)),
                      SortedKeys(DOMAIN bytecodes))

-----------------------------------------------------------------------------
(* make_config_c                                                           *)

\* format!(fmt, args...): one line of the file
Line(fmt, args) == [fmt |-> fmt, args |-> args]

HasInitFn(em) == em.init_fn # None /\ em.init_fn[1] # "NULL"

\* mutant of make_config_c_rows: the literal NULL is not skipped
make_config_c_rows_with_null(ems) ==
    Flatten([i \in 1..Len(ems) |->
        IF ems[i].init_fn # None
        THEN <<Line("{{\"{}\", {}}},", <<ems[i].module, ems[i].init_fn[1]>>)>>
        ELSE <<>>])

\* lines 798-806
make_config_c_externs(ems) ==
    Flatten([i \in 1..Len(ems) |->
        IF HasInitFn(ems[i])
        THEN <<Line("extern PyObject* {}(void);", <<ems[i].init_fn[1]>>)>>
        ELSE <<>>])

\* lines 810-818
make_config_c_rows(ems) ==
    Flatten([i \in 1..Len(ems) |->
        IF HasInitFn(ems[i])
        THEN <<Line("{{\"{}\", {}}},", <<ems[i].module, ems[i].init_fn[1]>>)>>
        ELSE <<>>])

\* the lines that lines.join("\n") puts one per line
make_config_c(ext) ==
    LET keys == SortedKeys(DOMAIN ext)
        values == [i \in 1..Len(keys) |-> ext[keys[i]]]
    IN  <<Line("#include \"Python.h\"", <<>>)>>
        \o make_config_c_externs(values)
        \o <<Line("struct _inittab _PyImport_Inittab[] = {", <<>>)>>
        \o make_config_c_rows(values)
        \o <<Line("{0, 0}", <<>>), Line("};", <<>>)>>

-----------------------------------------------------------------------------
(* link_libpython                                                          *)

\* the links read at lines 956-968: those of the staged extensions that are
\* not builtin_default, in the order met
ExtensionLinks(ext) ==
    LET keys == SortedKeys(DOMAIN ext)
    IN  Flatten([i \in 1..Len(keys) |->
            IF ext[keys[i]].builtin_default THEN <<>> ELSE ext[keys[i]].links])

\* Path::ends_with: the last components of path are those of suffix
PathEndsWith(path, suffix) ==
    /\ Len(suffix) <= Len(path)
    /\ SubSeq(path, Len(path) - Len(suffix) + 1, Len(path)) = suffix

\* mutant of CoreObjects: the distribution's config.o is not skipped
CoreObjectsAll(d) ==
    [i \in 1..Len(d.objs_core) |-> <<"temp_dir">> \o d.objs_core[i].rel_path]

\* lines 900-916: every core object but .../Modules/config.o is copied into
\* the temporary directory and the copy added to the build
CoreObjects(d) ==
    Flatten([i \in 1..Len(d.objs_core) |->
        IF PathEndsWith(d.objs_core[i].rel_path, <<"Modules", "config.o">>)
        THEN <<>>
        ELSE << <<"temp_dir">> \o d.objs_core[i].rel_path >>])

\* mutant of ExtensionObjects: builtin_default extensions are not skipped
ExtensionObjectsAll(ext) ==
    LET keys == SortedKeys(DOMAIN ext)
    IN  Flatten([i \in 1..Len(keys) |-> ext[keys[i]].object_paths])

\* lines 938-954: the object files of the staged extensions that are not
\* builtin_default
ExtensionObjects(ext) ==
    LET keys == SortedKeys(DOMAIN ext)
    IN  Flatten([i \in 1..Len(keys) |->
            IF ext[keys[i]].builtin_default THEN <<>> ELSE ext[keys[i]].object_paths])

\* the names of the entries, inserted into a BTreeSet<&str> one by one
NamesOf(links) == BTreeSetInsertAll(<<>>, [i \in 1..Len(links) |-> links[i].name])

\* lines 926-934 and 957-959
NeededFrameworks(d, ext) ==
    NamesOf(SelectSeq(d.links_core \o ExtensionLinks(ext), LAMBDA entry : entry.framework))

\* lines 926-934 and 960-962
NeededSystemLibraries(d, ext) ==
    NamesOf(SelectSeq(d.links_core \o ExtensionLinks(ext),
                      LAMBDA entry : ~entry.framework /\ entry.system))

\* lines 963-968: static and dynamic libraries of the extensions only
NeededLibraries(ext) ==
    NamesOf(SelectSeq(ExtensionLinks(ext),
                      LAMBDA entry : /\ ~entry.framework /\ ~entry.system
                                     /\ \/ entry.static_path # None
                                        \/ entry.dynamic_path # None))

\* mutant of LinkLibraries: a library the distribution does not ship is skipped
RECURSIVE LinkLibrariesLenient(_, _, _)
LinkLibrariesLenient(d, libraries, done) ==
    IF libraries = <<>> THEN done
    ELSE LET library == Head(libraries)
         IN  IF library \in Range(OS_IGNORE_LIBRARIES) \/ library \notin DOMAIN d.libraries
             THEN LinkLibrariesLenient(d, Tail(libraries), done)
             ELSE LinkLibrariesLenient(d, Tail(libraries),
                     [done EXCEPT
                        !.copied = Append(@, [from |-> d.libraries[library],
                                              to |-> <<"out_dir", "lib{}.a", library>>]),
                        !.cargo_metadata =
                            Append(@, Line("cargo:rustc-link-lib=static={}", <<library>>))])

\* mutant of LinkLibraries: the directive is pushed ahead of the others
RECURSIVE LinkLibrariesPrepend(_, _, _)
LinkLibrariesPrepend(d, libraries, done) ==
    IF libraries = <<>> THEN done
    ELSE LET library == Head(libraries)
         IN  IF library \in Range(OS_IGNORE_LIBRARIES)
             THEN LinkLibrariesPrepend(d, Tail(libraries), done)
             ELSE IF library \notin DOMAIN d.libraries
             THEN [done EXCEPT !.panic = TRUE]
             ELSE LinkLibrariesPrepend(d, Tail(libraries),
                     [done EXCEPT
                        !.copied = Append(@, [from |-> d.libraries[library],
                                              to |-> <<"out_dir", "lib{}.a", library>>]),
                        !.cargo_metadata =
                            <<Line("cargo:rustc-link-lib=static={}", <<library>>)>> \o @])

\* the loop of lines 973-989 over the needed libraries in ascending order:
\* an ignored one is skipped, one the distribution lacks panics, any other
\* is copied to out_dir and linked statically
RECURSIVE LinkLibraries(_, _, _)
LinkLibraries(d, libraries, done) ==
    IF libraries = <<>> THEN done
    ELSE LET library == Head(libraries)
         IN  IF library \in Range(OS_IGNORE_LIBRARIES)
             THEN LinkLibraries(d, Tail(libraries), done)
             ELSE IF library \notin DOMAIN d.libraries
             THEN [done EXCEPT !.panic = TRUE]
             ELSE LinkLibraries(d, Tail(libraries),
                     [done EXCEPT
                        !.copied = Append(@, [from |-> d.libraries[library],
                                              to |-> <<"out_dir", "lib{}.a", library>>]),
                        !.cargo_metadata =
                            Append(@, Line("cargo:rustc-link-lib=static={}", <<library>>))])

\* lines 835-1023 as far as config.c, the copied libraries, the objects of
\* pythonXY and the returned cargo_metadata go (the two cc::Build
\* compilations are taken to succeed)
link_libpython(d, ext) ==
    LET linked == LinkLibraries(d, NeededLibraries(ext),
                      [panic |-> FALSE, copied |-> <<>>,
                       cargo_metadata |->
                          <<Line("cargo:rustc-link-lib=static=pyembeddedconfig", <<>>)>>])
        frameworks == NeededFrameworks(d, ext)
        system_libraries == NeededSystemLibraries(d, ext)
    IN  [panic |-> linked.panic,
         config_c |-> make_config_c(ext),
         copied |-> linked.copied,
         objects |-> CoreObjects(d) \o ExtensionObjects(ext),
         cargo_metadata |->
            linked.cargo_metadata
            \o [i \in 1..Len(frameworks) |->
                    Line("cargo:rustc-link-lib=framework={}", <<frameworks[i]>>)]
            \o [i \in 1..Len(system_libraries) |->
                    Line("cargo:rustc-link-lib={}", <<system_libraries[i]>>)]]

-----------------------------------------------------------------------------
(* write_blobs, derive_python_config, run_from_build                       *)

\* The bytes fs::read gave for a file: a standard library module is a
\* comment naming it, every other file has the bytes listed here
FileBytes(content) ==
    LET path == content.content_of
    IN  IF path[1] = "dist" THEN Utf8["#"] \o path[3]
        ELSE CASE path = <<"site", "foo/__init__.py">> -> <<102>>
               [] path = <<"site", "foo/bar/__init__.py">> -> <<102, 98>>
               [] path = <<"site", "foo/bar/baz.py">> -> <<>>
               [] path = <<"site", "foo/barbell.py">> -> <<102, 98, 98>>
               [] path = <<"site", "json.py">> -> <<106, 10>>
               [] path = <<"tmp", "a.py">> -> <<97, 10>>
               [] path = <<"tmp", "foo/__init__.py">> -> <<102, 10, 10>>

\* The bytes the compiler child answered with (bytecode.rs): they depend on
\* the optimize level and the source
BytecodeBytes(bytecode) ==
    <<bytecode.optimize_level>> \o FileBytes(bytecode.bytecode_of)

\* mutant of sources_blob: the map walked from its last key to its first
sources_blob_descending(module_sources) ==
    LET names == SortedKeys(DOMAIN module_sources)
    IN  [i \in 1..Len(names) |->
            [name |-> names[Len(names) + 1 - i],
             data |-> FileBytes(module_sources[names[Len(names) + 1 - i]])]]

\* lines 156-167
sources_blob(module_sources) ==
    LET names == SortedKeys(DOMAIN module_sources)
    IN  [i \in 1..Len(names) |->
            [name |-> names[i], data |-> FileBytes(module_sources[names[i]])]]

\* lines 169-180
bytecodes_blob(bytecodes) ==
    LET names == SortedKeys(DOMAIN bytecodes)
    IN  [i \in 1..Len(names) |->
            [name |-> names[i], data |-> BytecodeBytes(bytecodes[names[i]])]]

\* lines 182-198: the three files
write_blobs(modules, module_sources, bytecodes) ==
    [module_names |-> Flatten([i \in 1..Len(modules) |-> modules[i] \o <<10>>]),
     py_modules |-> write_blob_entries(sources_blob(module_sources)),
     pyc_modules |-> write_blob_entries(bytecodes_blob(bytecodes))]

\* The parsed configuration apart from python_packaging, which the rule
\* loop draws
Config ==
    [python_distribution_path |-> Some("python.tar.zst"),
     program_name |-> "app",
     stdio_encoding_name |-> None,
     stdio_encoding_errors |-> Some("strict"),
     optimize_level |-> 0,
     filesystem_importer |-> FALSE,
     sys_paths |-> <<"$ORIGIN/lib", "$ORIGIN">>,
     no_site |-> TRUE,
     no_user_site_directory |-> TRUE,
     ignore_environment |-> TRUE,
     dont_write_bytecode |-> TRUE,
     unbuffered_stdio |-> FALSE,
     rust_allocator_raw |-> FALSE,
     write_modules_directory_env |-> None,
     run |-> [mode |-> "Module", module |-> "app.main"]]

\* lines 1026-1097: the format string and its arguments in order
derive_python_config(config, importlib_bootstrap_path, importlib_bootstrap_external_path, py_modules_path, pyc_modules_path) ==
    Line("PythonConfig {..}",
         <<config.program_name,
           IF config.stdio_encoding_name = None THEN "None"
           ELSE <<"Some(\"{}\")", config.stdio_encoding_name[1]>>,
           IF config.stdio_encoding_errors = None THEN "None"
           ELSE <<"Some(\"{}\")", config.stdio_encoding_errors[1]>>,
           config.optimize_level,
           config.filesystem_importer,
           [i \in 1..Len(config.sys_paths) |->
               <<"\"", config.sys_paths[i], "\".to_string()">>],
           ~config.no_site,
           ~config.no_user_site_directory,
           config.ignore_environment,
           config.dont_write_bytecode,
           config.unbuffered_stdio,
           importlib_bootstrap_path,
           importlib_bootstrap_external_path,
           py_modules_path,
           pyc_modules_path,
           config.rust_allocator_raw,
           IF config.write_modules_directory_env = None THEN "None"
           ELSE <<"Some(\"", config.write_modules_directory_env[1], "\".to_string())">>,
           CASE config.run.mode = "Repl" -> "PythonRunMode::Repl"
             [] config.run.mode = "Module" ->
                   <<"PythonRunMode::Module { module: \"", config.run.module,
                     "\".to_string() }">>
             [] config.run.mode = "Eval" ->
                   <<"PythonRunMode::Eval { code: \"", config.run.code,
                     "\".to_string() }">>>>)

\* The environment of the build script: PYOXIDIZER_CONFIG is set on the
\* Windows build only
BuildEnv(os) ==
    [build_script |-> "build.rs",
     TARGET |-> os,
     CARGO_MANIFEST_DIR |-> <<"work", "proj", "app">>,   \* /work/proj/app
     OUT_DIR |-> <<"out_dir">>,
     PYOXIDIZER_CONFIG |-> IF os = "windows" THEN Some(<<"cfg", "custom.toml">>) ELSE None]

\* Path::display of an absolute path
RECURSIVE PathDisplay(_)
PathDisplay(path) ==
    IF path = <<>> THEN "" ELSE "/" \o Head(path) \o PathDisplay(Tail(path))

\* the config files that exist
ConfigFiles ==
    {<<"cfg", "custom.toml">>} \cup
    {<<"work", "proj", "pyoxidizer." \o os \o ".toml">> : os \in {"linux", "macos"}}

\* lines 1373-1385: the first ancestor of start_dir, itself included, that
\* has the file
find_pyoxidizer_config_file(start_dir, target) ==
    LET basename == "pyoxidizer." \o target \o ".toml"
        found == {n \in 0..Len(start_dir) :
                    SubSeq(start_dir, 1, n) \o <<basename>> \in ConfigFiles}
    IN  IF found = {} THEN None
        ELSE Some(SubSeq(start_dir, 1, CHOOSE n \in found : \A k \in found : k <= n)
                  \o <<basename>>)

\* lines 1410-1432
ConfigPath(env) ==
    IF env.PYOXIDIZER_CONFIG # None THEN env.PYOXIDIZER_CONFIG
    ELSE find_pyoxidizer_config_file(env.CARGO_MANIFEST_DIR, env.TARGET)

\* lines 1401-1441: what run_from_build prints before it calls
\* process_config (only the cargo: lines are kept)
RunFromBuildPrologue(env) ==
    LET config_path == ConfigPath(env)
    IN  [panic |-> config_path = None \/ config_path[1] \notin ConfigFiles,
         stdout |->
            <<Line("cargo:rerun-if-changed={}", <<env.build_script>>),
              Line("cargo:rerun-if-env-changed=PYOXIDIZER_CONFIG", <<>>)>>
            \o IF config_path = None \/ config_path[1] \notin ConfigFiles THEN <<>>
               ELSE <<Line("cargo:rerun-if-changed={}", <<PathDisplay(config_path[1])>>)>>]

\* mutant of ProcessConfigMetadata: the loop of lines 1268-1270 left out
ProcessConfigMetadataNoFiles(config, info, files) ==
    (IF config.python_distribution_path # None
     THEN <<Line("cargo:rerun-if-changed={}", <<config.python_distribution_path[1]>>)>>
     ELSE <<>>)
    \o info.cargo_metadata

\* lines 1182-1184 and 1266-1270: the cargo_metadata of process_config
ProcessConfigMetadata(config, info, files) ==
    (IF config.python_distribution_path # None
     THEN <<Line("cargo:rerun-if-changed={}", <<config.python_distribution_path[1]>>)>>
     ELSE <<>>)
    \o info.cargo_metadata
    \o [i \in 1..Len(files) |-> Line("cargo:rerun-if-changed={}", <<files[i]>>)]

-----------------------------------------------------------------------------
(* PackageArchive (tar.rs)                                                 *)

MaxComponents == 2

\* str::lines: the pieces between line feeds, a carriage return before the
\* line feed dropped, no piece after the last line feed unless text follows
RECURSIVE SplitLines(_, _)
SplitLines(data, line) ==
    IF data = <<>> THEN (IF line = <<>> THEN <<>> ELSE <<line>>)
    ELSE IF Head(data) = 10
    THEN <<IF line # <<>> /\ line[Len(line)] = 13
           THEN SubSeq(line, 1, Len(line) - 1) ELSE line>>
         \o SplitLines(Tail(data), <<>>)
    ELSE SplitLines(Tail(data), Append(line, Head(data)))

Lines(data) == SplitLines(data, <<>>)

\* str::find(':'): the index before the first colon, if there is one
FindColon(line) ==
    LET at == {i \in 1..Len(line) : line[i] = 58}
    IN  IF at = {} THEN None ELSE Some((CHOOSE i \in at : \A j \in at : i <= j) - 1)

\* lines 144-168: Err at the first line whose action is neither file nor
\* dir; a line without colon is passed over
RECURSIVE parse_manifest_lines(_, _, _)
parse_manifest_lines(lines, dirs, files) ==
    IF lines = <<>> THEN [ok |-> TRUE, dirs |-> dirs, files |-> files]
    ELSE LET line == Head(lines)
             pos == FindColon(line)
         IN  IF pos = None THEN parse_manifest_lines(Tail(lines), dirs, files)
             ELSE LET action == SubSeq(line, 1, pos[1])
                      path == SubSeq(line, pos[1] + 2, Len(line))
                  IN  IF action = Utf8["file"]
                      THEN parse_manifest_lines(Tail(lines), dirs, Append(files, path))
                      ELSE IF action = Utf8["dir"]
                      THEN parse_manifest_lines(Tail(lines), Append(dirs, path), files)
                      ELSE [ok |-> FALSE, action |-> action]

parse_manifest(data) == parse_manifest_lines(Lines(data), <<>>, <<>>)

\* Path::join of two relative paths
PathJoin(base, path) == IF base = <<>> THEN path ELSE base \o <<47>> \o path

\* mutant of DirsRejected: the test of line 116 left out
DirsAccepted(dirs) == FALSE

\* line 116
DirsRejected(dirs) == dirs # <<>>

\* the components an archive may name
ComponentNames == {Utf8["cargo"], Utf8["rustc"]}

ManifestKinds == {"missing", "plain", "dir", "unknown", "absent"}

\* the text of a manifest.in of each kind
ManifestText(kind) ==
    LET entry(action, path) == Utf8[action] \o <<58>> \o Utf8[path] \o <<10>>
    IN  CASE kind = "plain" ->
                entry("file", "bin/tool") \o Utf8["note"] \o <<10>>
                \o entry("file", "lib/libtool.so")
          [] kind = "dir" -> entry("file", "bin/tool") \o entry("dir", "share/doc")
          [] kind = "unknown" -> entry("file", "bin/tool") \o entry("link", "bin/tool")
          [] kind = "absent" -> entry("file", "bin/tool") \o entry("file", "lib/gone.so")

\* the files an archive holds for a component: two payload files, and the
\* manifest.in unless it is missing
ComponentFiles(component, kind) ==
    (PathJoin(component, Utf8["bin/tool"]) :> component \o <<1>>)
    @@ (PathJoin(component, Utf8["lib/libtool.so"]) :> component \o <<2>>)
    @@ IF kind = "missing" THEN EmptyMap
       ELSE (PathJoin(component, Utf8["manifest.in"]) :> ManifestText(kind))

\* the archives considered: a manifest kind per component
Archives ==
    {ComponentFiles(Utf8["cargo"], kinds[1]) @@ ComponentFiles(Utf8["rustc"], kinds[2]) :
        kinds \in ManifestKinds \X ManifestKinds}

\* the components file of an archive that lists these components
ComponentsFile(names) == Flatten([i \in 1..Len(names) |-> names[i] \o <<10>>])

InstallIdle ==
    /\ manifest = EmptyMap
    /\ components = <<>>
    /\ install_pc = "idle"
    /\ component_index = 0
    /\ files_left = <<>>
    /\ dest_dir = EmptyMap
    /\ written = <<>>
    /\ install_error = None

-----------------------------------------------------------------------------
(* Actions                                                                 *)

BlobIdle ==
    /\ entries = <<>>
    /\ entry_sizes = <<>>
    /\ dest = <<>>
    /\ blob_result = "none"

ResolveIdle ==
    /\ target_os = "linux"
    /\ dist = DistFull
    /\ pc = "idle"
    /\ rule_count = 0
    /\ packaging = NoRule
    /\ pip = "none"
    /\ res = <<>>
    /\ extension_modules = EmptyMap
    /\ sources = EmptyMap
    /\ bytecode_requests = EmptyMap
    /\ resources = EmptyMap
    /\ read_files = <<>>
    /\ compile_log = <<>>
    /\ module_bytecodes = EmptyMap
    /\ all_modules = <<>>
    /\ config_c = <<>>
    /\ importlib = None
    /\ out_dir_libs = <<>>
    /\ libpython_info = None
    /\ blobs = None
    /\ pythonXY_objects = <<>>
    /\ embedded = None
    /\ stdout = <<>>
    /\ children = <<>>

BlobInit ==
    /\ dest = <<>>
    /\ blob_result = "none"
    /\ \/ entries \in SeqsUpTo(BlobEntry, MaxEntries) /\ entry_sizes = <<>>
       \/ entries = <<>> /\ entry_sizes \in SeqsUpTo(EntrySize, MaxEntries) \ {<<>>}
    /\ ResolveIdle
    /\ InstallIdle

\* write_blob_entries(dest, entries) into an in-memory writer, which never
\* fails: every `?` falls through and the function returns Ok(())
WriteBlobEntries ==
    /\ blob_result = "none"
    /\ entry_sizes = <<>>
    /\ dest' = write_blob_entries(entries)
    /\ blob_result' = "Ok"
    /\ UNCHANGED <<entries, entry_sizes, resolve_vars, install_vars>>

\* The same call on entries whose sizes are around 4 GiB: only the index
\* (lines 769-775) is modelled, the name and data bytes are not enumerated
WriteBlobIndex ==
    /\ blob_result = "none"
    /\ entry_sizes # <<>>
    /\ dest' = BlobIndex(entry_sizes)
    /\ blob_result' = "Ok"
    /\ UNCHANGED <<entries, entry_sizes, resolve_vars, install_vars>>

BlobNext == WriteBlobEntries \/ WriteBlobIndex

SpecBlob == BlobInit /\ [][BlobNext]_vars


\* run_from_build has called process_config, which has read the
\* distribution (line 1200); nothing is staged
Init ==
    /\ BlobIdle
    /\ InstallIdle
    /\ \E platform \in Platforms : target_os = platform[1] /\ dist = platform[2]
    /\ pc = "importlib"
    /\ rule_count = 0
    /\ packaging = NoRule
    /\ pip = "none"
    /\ res = <<>>
    /\ extension_modules = EmptyMap
    /\ sources = EmptyMap
    /\ bytecode_requests = EmptyMap
    /\ resources = EmptyMap
    /\ read_files = <<>>
    /\ compile_log = <<>>
    /\ module_bytecodes = EmptyMap
    /\ all_modules = <<>>
    /\ config_c = <<>>
    /\ importlib = None
    /\ out_dir_libs = <<>>
    /\ libpython_info = None
    /\ blobs = None
    /\ pythonXY_objects = <<>>
    /\ embedded = None
    /\ ~RunFromBuildPrologue(BuildEnv(target_os)).panic
    /\ stdout = RunFromBuildPrologue(BuildEnv(target_os)).stdout
    /\ children = <<>>

\* bytecode_compiler(&dist) gives a BytecodeCompiler, which owns one child
\* process (bytecode.rs); the child lives until the value is dropped.
\* A compiler that served the calls `served` and has gone out of scope:
DroppedCompiler(served) == [served |-> served, dropped |-> TRUE]

\* PYTHON_IMPORTER and the marker line appended at lines 740-741
ExtendSource(source) ==
    [content_of |-> source.content_of,
     extended |-> <<"\n# END OF importlib/_bootstrap_external.py\n\n", "memoryimporter.py">>]

\* derive_importlib, called at process_config line 1204: a compiler of its
\* own compiles the two frozen modules and is dropped when it returns
DeriveImportlib ==
    /\ pc = "importlib"
    /\ LET bootstrap_source ==
               fs_read(dist.py_modules[Utf8["importlib._bootstrap"]])
           bootstrap_external_source ==
               ExtendSource(fs_read(dist.py_modules[Utf8["importlib._bootstrap_external"]]))
           bootstrap == compile(bootstrap_source,
                                Utf8["<frozen importlib._bootstrap>"], 0)
           bootstrap_external == compile(bootstrap_external_source,
                                         Utf8["<frozen importlib._bootstrap_external>"], 0)
       IN  IF bootstrap.ok /\ bootstrap_external.ok
           THEN /\ importlib' = Some([bootstrap_source |-> bootstrap_source,
                                      bootstrap_bytecode |-> bootstrap.bytecode,
                                      bootstrap_external_source |-> bootstrap_external_source,
                                      bootstrap_external_bytecode |-> bootstrap_external.bytecode])
                /\ children' = Append(children, DroppedCompiler(
                                   <<Utf8["<frozen importlib._bootstrap>"],
                                     Utf8["<frozen importlib._bootstrap_external>"]>>))
                /\ pc' = "staging"
           ELSE /\ importlib' = None
                /\ children' = Append(children, DroppedCompiler(
                                   <<Utf8["<frozen importlib._bootstrap>"]>>
                                   \o IF bootstrap.ok
                                      THEN <<Utf8["<frozen importlib._bootstrap_external>"]>>
                                      ELSE <<>>))
                /\ pc' = "panicked"
    /\ UNCHANGED <<target_os, dist, rule_count, packaging, pip, res, staging_vars,
                   read_files, compile_log, module_bytecodes, all_modules, config_c,
                   out_dir_libs, libpython_info, output_vars, blob_vars, install_vars>>

\* One iteration of the loop of line 573 for the next rule of the
\* configuration: resolve_python_packaging, the entries, the filter
ProcessRule(package, outcome) ==
    /\ pc = "staging"
    /\ rule_count < MaxRules
    /\ outcome = "none" <=> package.kind # "PipInstallSimple"
    /\ LET r == resolve_python_packaging(package, dist, outcome)
           f == ApplyFilter(package, ApplyEntries(Staging, r.res), read_files)
       IN  /\ res' = r.res
           /\ IF r.panic \/ f.panic
              THEN /\ pc' = "panicked"
                   /\ UNCHANGED <<staging_vars, read_files>>
              ELSE /\ pc' = "staging"
                   /\ extension_modules' = f.st.extension_modules
                   /\ sources' = f.st.sources
                   /\ bytecode_requests' = f.st.bytecode_requests
                   /\ resources' = f.st.resources
                   /\ read_files' = f.read_files
    /\ rule_count' = rule_count + 1
    /\ packaging' = package
    /\ pip' = outcome
    /\ UNCHANGED <<target_os, dist, compile_log, module_bytecodes, all_modules,
                   config_c, importlib, children, out_dir_libs, libpython_info, output_vars, blob_vars, install_vars>>

\* the compile calls of lines 684-691, in the order made, with their results
CompileCalls(requests) ==
    LET names == SortedKeys(DOMAIN requests)
    IN  [i \in 1..Len(names) |->
            [name |-> names[i], source |-> requests[names[i]][1],
             optimize_level |-> requests[names[i]][2],
             result |-> compile(requests[names[i]][1], names[i], requests[names[i]][2])]]

\* Lines 662-677, after the last rule: the required extensions are added,
\* the extensions of the ignore list removed
CloseExtensions ==
    /\ pc = "staging"
    /\ extension_modules' =
          RemoveIgnored(AddRequired(extension_modules, dist), OS_IGNORE_EXTENSIONS)
    /\ pc' = "compiling"
    /\ UNCHANGED <<target_os, dist, rule_count, packaging, pip, res,
                   sources, bytecode_requests, resources, read_files, compile_log,
                   module_bytecodes, all_modules, config_c, importlib, children,
                   out_dir_libs, libpython_info, output_vars, blob_vars, install_vars>>

\* Lines 679-710: a compiler is made, every request compiled in key order
\* (the first call that returns Err panics), the compiler dropped at the end
\* of the block or by the unwinding, all_modules built
FinishResolve ==
    /\ pc = "compiling"
    /\ LET calls == CompileCalls(bytecode_requests)
           failed == {i \in 1..Len(calls) : ~calls[i].result.ok}
           bytecodes == [name \in DOMAIN bytecode_requests |->
                            compile(bytecode_requests[name][1], name,
                                    bytecode_requests[name][2]).bytecode]
           made == IF failed = {} THEN calls ELSE SubSeq(calls, 1, MinOf(failed))
       IN  /\ compile_log' = made
           /\ children' = Append(children,
                  DroppedCompiler([i \in 1..Len(compile_log') |-> compile_log'[i].name]))
           /\ IF failed = {}
              THEN /\ module_bytecodes' = bytecodes
                   /\ all_modules' = AllModules(sources, bytecodes)
                   /\ pc' = "resolved"
              ELSE /\ pc' = "panicked"
                   /\ UNCHANGED <<module_bytecodes, all_modules>>
    /\ UNCHANGED <<target_os, dist, rule_count, packaging, pip, res,
                   staging_vars, read_files, config_c, importlib,
                   out_dir_libs, libpython_info, output_vars, blob_vars, install_vars>>

\* resources.write_blobs, process_config line 1249
WriteBlobs ==
    /\ pc = "resolved"
    /\ blobs' = Some(write_blobs(all_modules, sources, module_bytecodes))
    /\ pc' = "written"
    /\ UNCHANGED <<target_os, dist, rule_count, packaging, pip, res,
                   staging_vars, read_files, compile_log, module_bytecodes,
                   all_modules, config_c, importlib, children, out_dir_libs,
                   libpython_info, pythonXY_objects, embedded, stdout, blob_vars, install_vars>>

\* link_libpython, called at process_config line 1265: config.c is written,
\* the needed libraries copied, and pythonXY compiled and the directives
\* returned unless a needed library is missing
LinkLibpython ==
    /\ pc = "written"
    /\ LET r == link_libpython(dist, extension_modules)
       IN  /\ config_c' = r.config_c
           /\ out_dir_libs' = r.copied
           /\ IF r.panic
              THEN /\ libpython_info' = None
                   /\ pythonXY_objects' = <<>>
                   /\ pc' = "panicked"
              ELSE /\ libpython_info' = Some([path |-> <<"out_dir", "libpythonXY.a">>,
                                              cargo_metadata |-> r.cargo_metadata])
                   /\ pythonXY_objects' = r.objects
                   /\ pc' = "linked"
    /\ UNCHANGED <<target_os, dist, rule_count, packaging, pip, res,
                   staging_vars, read_files, compile_log, module_bytecodes,
                   all_modules, importlib, children, blobs, embedded, stdout,
                   blob_vars, install_vars>>

\* process_config lines 1266-1298 and run_from_build lines 1445-1450: the
\* metadata is put together, the runtime configuration derived, the
\* EmbeddedPythonConfig returned and its cargo_metadata printed
ReturnAndPrint ==
    /\ pc = "linked"
    /\ LET out_dir == BuildEnv(target_os).OUT_DIR
           cargo_metadata == ProcessConfigMetadata(Config, libpython_info[1], read_files)
       IN  /\ embedded' =
                 Some([cargo_metadata |-> cargo_metadata,
                       python_config_rs |->
                          derive_python_config(Config,
                              out_dir \o <<"importlib_bootstrap">>,
                              out_dir \o <<"importlib_bootstrap_external">>,
                              out_dir \o <<"py-modules">>,
                              out_dir \o <<"pyc-modules">>),
                       libpython_path |-> libpython_info[1].path])
           /\ stdout' = stdout \o cargo_metadata
    /\ pc' = "built"
    /\ UNCHANGED <<target_os, dist, rule_count, packaging, pip, res,
                   staging_vars, read_files, compile_log, module_bytecodes,
                   all_modules, config_c, importlib, children, out_dir_libs,
                   libpython_info, blobs, pythonXY_objects, blob_vars, install_vars>>

Next ==
    \/ \E package \in PackagingRules, outcome \in PipOutcomes \cup {"none"} :
          ProcessRule(package, outcome)
    \/ DeriveImportlib
    \/ CloseExtensions
    \/ FinishResolve
    \/ WriteBlobs
    \/ LinkLibpython
    \/ ReturnAndPrint

Spec == Init /\ [][Next]_vars

\* PackageArchive::new returned an archive (lines 85-100: the components are
\* the lines of its components file) and install is called on an empty
\* destination directory
InstallInit ==
    /\ BlobIdle
    /\ ResolveIdle
    /\ manifest \in Archives
    /\ \E names \in SeqsUpTo(ComponentNames, MaxComponents) :
          components = Lines(ComponentsFile(names))
    /\ install_pc = "component"
    /\ component_index = 1
    /\ files_left = <<>>
    /\ dest_dir = EmptyMap
    /\ written = <<>>
    /\ install_error = None

\* lines 105-118: the manifest.in of the next component is looked up and
\* parsed; install returns Err if it is missing, does not parse or lists a
\* directory
InstallComponent ==
    /\ install_pc = "component"
    /\ component_index <= Len(components)
    /\ LET manifest_path == PathJoin(components[component_index], Utf8["manifest.in"])
       IN  IF manifest_path \notin DOMAIN manifest
           THEN /\ install_error' = Some([error |-> "{} not found", path |-> manifest_path])
                /\ install_pc' = "err"
                /\ UNCHANGED files_left
           ELSE LET parsed == parse_manifest(manifest[manifest_path])
                IN  IF ~parsed.ok
                    THEN /\ install_error' =
                              Some([error |-> "unhandled action in manifest.in: {}",
                                    action |-> parsed.action])
                         /\ install_pc' = "err"
                         /\ UNCHANGED files_left
                    ELSE IF DirsRejected(parsed.dirs)
                    THEN /\ install_error' =
                              Some([error |-> "support for copying directories not implemented"])
                         /\ install_pc' = "err"
                         /\ UNCHANGED files_left
                    ELSE /\ files_left' = parsed.files
                         /\ install_pc' = "files"
                         /\ UNCHANGED install_error
    /\ UNCHANGED <<manifest, components, component_index, dest_dir, written,
                   blob_vars, resolve_vars>>

\* lines 120-138, one iteration: the file is looked up in the archive and
\* written under dest_dir (the destination is writable); install returns
\* Err if the archive does not have it
InstallFile ==
    /\ install_pc = "files"
    /\ files_left # <<>>
    /\ LET file == Head(files_left)
           manifest_path == PathJoin(components[component_index], file)
       IN  IF manifest_path \notin DOMAIN manifest
           THEN /\ install_error' =
                     Some([error |-> "could not locate file {} in manifest",
                           path |-> manifest_path])
                /\ install_pc' = "err"
                /\ UNCHANGED <<dest_dir, written, files_left>>
           ELSE /\ dest_dir' = MapInsert(dest_dir, file, manifest[manifest_path])
                /\ written' = Append(written, [component |-> component_index,
                                               from |-> manifest_path, to |-> file])
                /\ files_left' = Tail(files_left)
                /\ UNCHANGED <<install_pc, install_error>>
    /\ UNCHANGED <<manifest, components, component_index, blob_vars, resolve_vars>>

\* the loop of line 120 is over: on to the next component
InstallComponentDone ==
    /\ install_pc = "files"
    /\ files_left = <<>>
    /\ component_index' = component_index + 1
    /\ install_pc' = "component"
    /\ UNCHANGED <<manifest, components, files_left, dest_dir, written,
                   install_error, blob_vars, resolve_vars>>

\* line 141: the loop of line 105 is over
InstallReturn ==
    /\ install_pc = "component"
    /\ component_index > Len(components)
    /\ install_pc' = "ok"
    /\ UNCHANGED <<manifest, components, component_index, files_left, dest_dir,
                   written, install_error, blob_vars, resolve_vars>>

InstallNext ==
    \/ InstallComponent
    \/ InstallFile
    \/ InstallComponentDone
    \/ InstallReturn

SpecInstall == InstallInit /\ [][InstallNext]_vars

-----------------------------------------------------------------------------
(* Claims about write_blob_entries                                         *)

\* a number below 2^31 as four little-endian bytes
LE32(n) == <<n % 256, (n \div 256) % 256, (n \div 65536) % 256, n \div 16777216>>

\* the blob layout: count, (name length, data length) pairs, names, data
RECURSIVE LayoutIndex(_)
LayoutIndex(es) ==
    IF es = <<>> THEN <<>>
    ELSE LE32(Len(Head(es).name)) \o LE32(Len(Head(es).data)) \o LayoutIndex(Tail(es))

RECURSIVE LayoutNames(_)
LayoutNames(es) == IF es = <<>> THEN <<>> ELSE Head(es).name \o LayoutNames(Tail(es))

RECURSIVE LayoutData(_)
LayoutData(es) == IF es = <<>> THEN <<>> ELSE Head(es).data \o LayoutData(Tail(es))

BlobWritten == blob_result = "Ok" /\ entry_sizes = <<>>

ScenarioS2 ==
    <<[name |-> Utf8["a"], data |-> <<1, 2>>], [name |-> Utf8["bb"], data |-> <<3>>]>>

\* C1: for every list of N entries whose lengths fit a u32, the bytes written
\* are N as a little-endian u32, then each entry's name length and data length
\* as little-endian u32 in input order, then all names, then all data, with
\* nothing in between; ("a", 01 02), ("bb", 03) give the bytes of scenario S2.
C1_BlobLayout ==
    BlobWritten =>
        /\ dest = LE32(Len(entries)) \o LayoutIndex(entries)
                  \o LayoutNames(entries) \o LayoutData(entries)
        /\ entries = ScenarioS2 =>
              dest = <<2, 0, 0, 0,  1, 0, 0, 0, 2, 0, 0, 0,  2, 0, 0, 0, 1, 0, 0, 0,
                       97, 98, 98,  1, 2, 3>>

C1_Witness == BlobWritten /\ entries = ScenarioS2

\* Reading a blob back, as the format prescribes: u32 count, count pairs of
\* u32 lengths, then the names, then the data
ReadU32LE(bs, at) ==
    bs[at] + 256 * bs[at + 1] + 65536 * bs[at + 2] + 16777216 * bs[at + 3]

RECURSIVE SumTo(_, _)
SumTo(f, k) == IF k = 0 THEN 0 ELSE f[k] + SumTo(f, k - 1)

DecodeBlob(bs) ==
    LET n == ReadU32LE(bs, 1)
        name_len == [i \in 1..n |-> ReadU32LE(bs, 5 + 8 * (i - 1))]
        data_len == [i \in 1..n |-> ReadU32LE(bs, 9 + 8 * (i - 1))]
        names_at == 4 + 8 * n
        data_at == names_at + SumTo(name_len, n)
    IN  [i \in 1..n |->
            [name |-> SubSeq(bs, names_at + SumTo(name_len, i - 1) + 1,
                                 names_at + SumTo(name_len, i)),
             data |-> SubSeq(bs, data_at + SumTo(data_len, i - 1) + 1,
                                 data_at + SumTo(data_len, i))]]

\* C2: decoding the bytes written by write_blob_entries yields the input
\* list: same number of entries, same order, names and data bytewise equal
\* (for entries whose lengths fit a u32), and nothing is left over.
C2_BlobRoundTrip ==
    BlobWritten =>
        /\ DecodeBlob(dest) = entries
        /\ Len(dest) = 4 + 8 * Len(entries) + Len(LayoutNames(entries))
                         + Len(LayoutData(entries))

C2_Witness ==
    /\ BlobWritten
    /\ Len(entries) = 2
    /\ entries[1].name = Utf8["bb"] /\ entries[1].data = <<255, 0>>
    /\ entries[2].name = Utf8[""] /\ entries[2].data = <<>>

\* a usize that fits a u32
FitsU32(u) == u[3] = 0 /\ u[4] = 0

Oversized(sz) == ~FitsU32(sz.name_len) \/ ~FitsU32(sz.data_len)

\* the length field at byte offset `at` of the index, as a usize
IndexField(bs, at) ==
    <<bs[at] + 256 * bs[at + 1], bs[at + 2] + 256 * bs[at + 3], 0, 0>>

\* C3: write_blob_entries returns an error when an entry's name length or
\* data length does not fit a u32, and never writes an index whose length
\* field differs from the entry's true length.
C3_RejectsOversized ==
    blob_result # "none" /\ entry_sizes # <<>> =>
        /\ (\E i \in 1..Len(entry_sizes) : Oversized(entry_sizes[i])) => blob_result = "Err"
        /\ \A i \in 1..Len(entry_sizes) :
              Len(dest) >= 4 + 8 * i =>
                  /\ IndexField(dest, 5 + 8 * (i - 1)) = entry_sizes[i].name_len
                  /\ IndexField(dest, 9 + 8 * (i - 1)) = entry_sizes[i].data_len

-----------------------------------------------------------------------------
(* Claims about resolve_python_resources and make_config_c                 *)

Resolved == pc \in {"resolved", "written", "linked", "built"}

StrictlyAscending(names) ==
    \A i, j \in 1..Len(names) : i < j => BytesLess(names[i], names[j])

\* C4: when resolve_python_resources returns, all_modules is the union of
\* the keys of module_sources and of module_bytecodes, in ascending order.
C4_ModuleSetLaw ==
    Resolved =>
        /\ Range(all_modules) = DOMAIN sources \cup DOMAIN module_bytecodes
        /\ StrictlyAscending(all_modules)

C4_Witness ==
    /\ pc = "resolved"
    /\ DOMAIN sources # {}
    /\ DOMAIN sources # DOMAIN module_bytecodes
    /\ Len(all_modules) >= 3

RequiredExtension(name) ==
    \/ dist.extension_modules[name][1].builtin_default
    \/ dist.extension_modules[name][1].required

\* C5: when resolve_python_resources returns, every extension of the
\* distribution whose first variant is builtin_default or required is a key
\* of extension_modules, unless OS_IGNORE_EXTENSIONS names it.
C5_RequiredClosure ==
    Resolved =>
        \A name \in DOMAIN dist.extension_modules :
            RequiredExtension(name) /\ name \notin Range(OS_IGNORE_EXTENSIONS)
                => name \in DOMAIN extension_modules

\* the last rule was a filter whose whitelist has neither _io nor zlib
C5_Witness ==
    /\ pc = "resolved"
    /\ dist = DistFull
    /\ rule_count = 2
    /\ packaging = [kind |-> "FilterFileInclude", path |-> "F2"]
    /\ {Utf8["_io"], Utf8["zlib"]} \subseteq DOMAIN extension_modules
    /\ Utf8["_ssl"] \in DOMAIN extension_modules

\* C6: processing the same FilterFileInclude rule a second time, directly
\* after the first, leaves the four staging maps as the first left them.
C6_FilterIdempotent ==
    [][(/\ pc = "staging" /\ pc' = "staging"
        /\ packaging.kind = "FilterFileInclude"
        /\ packaging' = packaging
        /\ rule_count' = rule_count + 1)
            => staging_vars' = staging_vars]_vars

\* the state after [Stdlib with sources, FilterFileInclude F1, the same again]
C6_Witness ==
    /\ pc = "staging"
    /\ rule_count = 3
    /\ packaging = [kind |-> "FilterFileInclude", path |-> "F1"]
    /\ read_files = <<"F1", "F1">>
    /\ DOMAIN sources = {Utf8["json"], Utf8["json.tests"]}
    /\ DOMAIN bytecode_requests = DOMAIN sources

\* n equals p, or n is p followed by a dot and more
DottedMatch(n, p) ==
    \/ n = p
    \/ /\ Len(n) > Len(p)
       /\ \A i \in 1..Len(p) : n[i] = p[i]
       /\ n[Len(p) + 1] = Utf8["."][1]

EmittedNames(es) == {es[i].resource.name : i \in 1..Len(es)}

EntriesNaming(es, name) == SelectSeq(es, LAMBDA e : e.resource.name = name)

ScannedSources(path) ==
    LET scanned == find_python_resources(path)
    IN  {scanned[i].name : i \in {k \in 1..Len(scanned) : scanned[k].flavor = "Source"}}

WithoutExclude(package, pattern) ==
    [package EXCEPT !.excludes = SelectSeq(@, LAMBDA e : e # pattern)]

\* C7: a Virtualenv or PackageRoot rule emits a scanned module exactly when
\* no exclude matches it (and, for PackageRoot, some package does), a match
\* being equality or the pattern followed by a dot; foo.barbell is emitted
\* as it would be without the exclude foo.bar.
C7_PrefixSafety ==
    pc # "panicked" /\ packaging.kind \in {"Virtualenv", "PackageRoot"} =>
        LET scanned == IF packaging.kind = "Virtualenv"
                       THEN ScannedSources(VirtualenvPackagesPath(packaging, dist))
                       ELSE ScannedSources(<<packaging.path>>)
            wanted(n) == packaging.kind = "PackageRoot" =>
                            \E p \in Range(packaging.packages) : DottedMatch(n, p)
            excluded(n) == \E p \in Range(packaging.excludes) : DottedMatch(n, p)
        IN  /\ EmittedNames(res) = {n \in scanned : wanted(n) /\ ~excluded(n)}
            /\ EntriesNaming(res, Utf8["foo.barbell"])
                 = EntriesNaming(
                       resolve_python_packaging(
                           WithoutExclude(packaging, Utf8["foo.bar"]), dist, pip).res,
                       Utf8["foo.barbell"])

C7_Witness ==
    /\ pc = "staging"
    /\ packaging.kind = "Virtualenv"
    /\ Utf8["foo.bar"] \in Range(packaging.excludes)
    /\ Utf8["foo.barbell"] \in EmittedNames(res)
    /\ Utf8["foo.bar.baz"] \notin EmittedNames(res)
    /\ Utf8["foo.barbell"] \in DOMAIN bytecode_requests

\* C8: config.c has one _PyImport_Inittab row per staged extension whose
\* init function is present and not NULL, none for any other, in ascending
\* order of module name, then the {0, 0} sentinel; and one extern
\* declaration per row.
C8_InittabClosure ==
    pc = "linked" =>
        LET rows == SelectSeq(config_c, LAMBDA l : l.fmt = "{{\"{}\", {}}},")
            externs == SelectSeq(config_c, LAMBDA l : l.fmt = "extern PyObject* {}(void);")
            with_init == {k \in DOMAIN extension_modules :
                            /\ extension_modules[k].init_fn # None
                            /\ extension_modules[k].init_fn # Some("NULL")}
        IN  /\ Len(rows) = Cardinality(with_init)
            /\ {rows[i].args : i \in 1..Len(rows)}
                 = {<<k, extension_modules[k].init_fn[1]>> : k \in with_init}
            /\ StrictlyAscending([i \in 1..Len(rows) |-> rows[i].args[1]])
            /\ Len(externs) = Len(rows)
            /\ \A i \in 1..Len(rows) : externs[i].args = <<rows[i].args[2]>>
            /\ config_c = <<Line("#include \"Python.h\"", <<>>)>> \o externs
                          \o <<Line("struct _inittab _PyImport_Inittab[] = {", <<>>)>>
                          \o rows \o <<Line("{0, 0}", <<>>), Line("};", <<>>)>>

\* every extension of the distribution staged on macOS: nis has init_fn
\* NULL, atexit has none, readline is removed
C8_Witness ==
    /\ pc = "linked"
    /\ DOMAIN extension_modules
         = {Utf8["_crypt"], Utf8["_io"], Utf8["_ssl"], Utf8["atexit"], Utf8["nis"], Utf8["zlib"]}
    /\ Len(config_c) = 12

\* a module of a test package: a name equal to a known test package or
\* starting with one followed by a dot
IsTestModule(n) ==
    \E i \in 1..Len(STDLIB_TEST_PACKAGES) : DottedMatch(n, STDLIB_TEST_PACKAGES[i])

\* C9: a Stdlib rule with exclude_test_modules emits no action for a module
\* whose name equals a known test package or starts with one followed by a
\* dot, and emits one for every other module of py_modules.
C9_StdlibExcludesTests ==
    packaging.kind = "Stdlib" /\ packaging.exclude_test_modules =>
        EmittedNames(res) = {n \in DOMAIN dist.py_modules : ~IsTestModule(n)}

StdlibWithSources ==
    [kind |-> "Stdlib", optimize_level |-> 0, exclude_test_modules |-> TRUE,
     include_source |-> TRUE]

\* C10: for the rules [Stdlib{exclude_test_modules, include_source},
\* FilterFileInclude{F}] the staged sources are exactly the non-test modules
\* of the standard library that F lists, and no test module is staged as a
\* source or for bytecode, whatever F lists.  (The maps staged by the last
\* rule are the ones returned: lines 679-709 change neither key set.)
C10_ExcludeThenFilter ==
    [][(/\ pc = "staging" /\ rule_count = 1 /\ packaging = StdlibWithSources
        /\ pc' = "staging" /\ packaging'.kind = "FilterFileInclude")
            => /\ DOMAIN sources'
                    = {n \in DOMAIN dist.py_modules :
                          /\ ~IsTestModule(n)
                          /\ n \in read_resource_names_file(packaging'.path).names}
               /\ \A n \in DOMAIN sources' \cup DOMAIN bytecode_requests' :
                      ~IsTestModule(n)]_vars

-----------------------------------------------------------------------------
(* Claims about the extension rules of resolve_python_packaging            *)

\* the build failed while the last rule was processed: resolve_python_resources
\* had not yet got to line 682, where it makes its compiler
RuleFailed == pc = "panicked" /\ rule_count > 0 /\ Len(children) = 1

OnlyExtensionAdds(es) ==
    \A i \in 1..Len(es) :
        es[i].action = "Add" /\ es[i].resource.type = "ExtensionModule"

RequiredNames == {name \in DOMAIN dist.extension_modules : RequiredExtension(name)}

\* C11: the policy minimal yields, per extension name of the distribution,
\* an Add of variants[0] exactly when that variant is builtin_default or
\* required, and nothing else; as the only rule it leaves exactly those
\* names staged, minus the ignore list of the target.
C11_PolicyMinimal ==
    packaging = [kind |-> "StdlibExtensionsPolicy", policy |-> "minimal"] =>
        /\ OnlyExtensionAdds(res)
        /\ Len(res) = Cardinality(RequiredNames)
        /\ \A name \in DOMAIN dist.extension_modules :
              EntriesNaming(res, name) =
                  IF RequiredExtension(name)
                  THEN <<AddExtensionModule(name, dist.extension_modules[name][1])>>
                  ELSE <<>>
        /\ Resolved /\ rule_count = 1 =>
              DOMAIN extension_modules = RequiredNames \ Range(OS_IGNORE_EXTENSIONS)

\* scenario S1 on Linux: _io and zlib, neither readline nor the ignored
\* _crypt and nis
C11_Witness ==
    /\ pc = "resolved"
    /\ rule_count = 1
    /\ packaging = [kind |-> "StdlibExtensionsPolicy", policy |-> "minimal"]
    /\ target_os = "linux"
    /\ Len(res) = 4
    /\ DOMAIN extension_modules = {Utf8["_io"], Utf8["zlib"]}

\* the variants of an extension that have no library to link
Unlinked(variants) == {i \in 1..Len(variants) : variants[i].links = <<>>}

\* C12: the policy no-libraries yields, per extension name, exactly one Add,
\* of the first variant in sequence order whose links are empty, and nothing
\* for a name all of whose variants link a library.
C12_PolicyNoLibraries ==
    packaging = [kind |-> "StdlibExtensionsPolicy", policy |-> "no-libraries"] =>
        /\ OnlyExtensionAdds(res)
        /\ EmittedNames(res) \subseteq DOMAIN dist.extension_modules
        /\ \A name \in DOMAIN dist.extension_modules :
              LET variants == dist.extension_modules[name]
              IN  IF Unlinked(variants) = {}
                  THEN EntriesNaming(res, name) = <<>>
                  ELSE \E i \in Unlinked(variants) :
                          /\ \A j \in 1..(i - 1) : variants[j].links # <<>>
                          /\ EntriesNaming(res, name)
                                = <<AddExtensionModule(name, variants[i])>>

\* scenario S4: openssl-1.1 links libssl, openssl-3 is the first that does not
C12_Witness ==
    /\ pc = "staging"
    /\ packaging = [kind |-> "StdlibExtensionsPolicy", policy |-> "no-libraries"]
    /\ dist = DistFull
    /\ Utf8["_ssl"] \in DOMAIN extension_modules
    /\ extension_modules[Utf8["_ssl"]].variant = "openssl-3"
    /\ Utf8["readline"] \notin EmittedNames(res)

\* C13: a StdlibExtensionsPolicy rule with a policy other than minimal, all
\* and no-libraries fails the build, whatever the distribution lists.
C13_UnknownPolicyFails ==
    /\ packaging.kind = "StdlibExtensionsPolicy"
    /\ packaging.policy \notin {"minimal", "all", "no-libraries"}
    => RuleFailed

\* C14: StdlibExtensionsExplicitIncludes yields an Add of variants[0] for
\* each requested name the distribution has, in the order requested, and
\* for a name it does not have no action and no failure.
C14_ExplicitIncludes ==
    packaging.kind = "StdlibExtensionsExplicitIncludes" =>
        LET known == SelectSeq(packaging.includes,
                               LAMBDA n : n \in DOMAIN dist.extension_modules)
        IN  /\ ~RuleFailed
            /\ res = [i \in 1..Len(known) |->
                         AddExtensionModule(known[i], dist.extension_modules[known[i]][1])]

\* zlib and readline are in the distribution, _curses is not
C14_Witness ==
    /\ pc = "staging"
    /\ packaging.kind = "StdlibExtensionsExplicitIncludes"
    /\ Utf8["_curses"] \in Range(packaging.includes)
    /\ Utf8["_curses"] \notin DOMAIN dist.extension_modules
    /\ EmittedNames(res) = {Utf8["zlib"], Utf8["readline"]}
    /\ {Utf8["zlib"], Utf8["readline"]} \subseteq DOMAIN extension_modules

\* C15: StdlibExtensionVariant fails the build when the distribution has no
\* extension of the name or no variant of it with the tag; otherwise the
\* extension staged under the name is the variant with the tag.
C15_ExtensionVariant ==
    packaging.kind = "StdlibExtensionVariant" =>
        LET ext == packaging.extension
            missing ==
                \/ ext \notin DOMAIN dist.extension_modules
                \/ \A i \in 1..Len(dist.extension_modules[ext]) :
                      dist.extension_modules[ext][i].variant # packaging.variant
        IN  /\ RuleFailed <=> missing
            /\ pc = "staging" =>
                  /\ ext \in DOMAIN extension_modules
                  /\ extension_modules[ext] \in Range(dist.extension_modules[ext])
                  /\ extension_modules[ext].variant = packaging.variant

\* openssl-3 is the second variant of _ssl
C15_Witness ==
    /\ pc = "staging"
    /\ packaging.kind = "StdlibExtensionVariant"
    /\ extension_modules[packaging.extension].variant = "openssl-3"
    /\ extension_modules[packaging.extension] # dist.extension_modules[packaging.extension][1]

-----------------------------------------------------------------------------
(* Claims about bytecode compilation                                       *)

CompiledNames == {compile_log[i].name : i \in 1..Len(compile_log)}

BytecodeAdds(es, name) ==
    SelectSeq(es, LAMBDA e : e.resource.type = "ModuleBytecode" /\ e.resource.name = name)

\* the compile calls are made after the rule loop and the closing of the
\* extensions, one per key of the request map, with what the map holds
C16_CompiledFromFinalMap ==
    /\ pc \in {"importlib", "staging", "compiling"} => compile_log = <<>>
    /\ compile_log # <<>> =>
          /\ RequiredNames \ Range(OS_IGNORE_EXTENSIONS) \subseteq DOMAIN extension_modules
          /\ Range(OS_IGNORE_EXTENSIONS) \cap DOMAIN extension_modules = {}
    /\ \A i, j \in 1..Len(compile_log) :
          i # j => compile_log[i].name # compile_log[j].name
    /\ \A i \in 1..Len(compile_log) :
          /\ compile_log[i].name \in DOMAIN bytecode_requests
          /\ <<compile_log[i].source, compile_log[i].optimize_level>>
                = bytecode_requests[compile_log[i].name]
    /\ Resolved => CompiledNames = DOMAIN bytecode_requests

\* a rule leaves in the request map, per name, the last request it staged
\* for the name, else the request that was there
C16_LastRequestWins ==
    pc = "staging" /\ pc' = "staging" /\ rule_count' = rule_count + 1 =>
        \A name \in DOMAIN bytecode_requests' :
            LET adds == BytecodeAdds(res', name)
            IN  IF adds = <<>>
                THEN /\ name \in DOMAIN bytecode_requests
                     /\ bytecode_requests'[name] = bytecode_requests[name]
                ELSE bytecode_requests'[name]
                        = <<adds[Len(adds)].resource.source,
                            adds[Len(adds)].resource.optimize_level>>

\* C16: no compile call is made before the last rule, the forced adds and
\* the removal of the ignored extensions; the names compiled are the keys of
\* the final request map, each once, with the source and optimize level of
\* the last request staged for the name.
C16_DeferredCompilation ==
    []C16_CompiledFromFinalMap /\ [][C16_LastRequestWins]_vars

\* [Stdlib, Virtualenv, FilterFileInclude F1]: json was requested from the
\* standard library and then from site-packages, test was filtered out
C16_Witness ==
    /\ pc = "resolved"
    /\ rule_count = 3
    /\ read_files = <<"F1">>
    /\ \E i \in 1..Len(compile_log) :
          /\ compile_log[i].name = Utf8["json"]
          /\ compile_log[i].source = fs_read(<<"site", "json.py">>)
          /\ compile_log[i].optimize_level = 1
    /\ \E i \in 1..Len(compile_log) :
          /\ compile_log[i].name = Utf8["json.tests"]
          /\ compile_log[i].source = fs_read(<<"dist", "Lib", Utf8["json.tests"]>>)
    /\ Utf8["test"] \notin CompiledNames

\* C17: one build creates exactly one bytecode compiler child, which serves
\* the frozen importlib modules and every staged module, and is released on
\* every exit path.
C17_OneCompilerChild ==
    pc # "importlib" =>
        /\ Len(children) = 1
        /\ children[1].dropped
        /\ CompiledNames \subseteq Range(children[1].served)
        /\ Utf8["<frozen importlib._bootstrap>"] \in Range(children[1].served)

\* C18: on return, a name that has both a source and bytecode has bytecode
\* compiled from the bytes module_sources holds for it.
C18_SourcesAgreeWithBytecode ==
    pc = "resolved" =>
        \A name \in DOMAIN sources \cap DOMAIN module_bytecodes :
            module_bytecodes[name].bytecode_of = sources[name]

-----------------------------------------------------------------------------
(* Claims about link_libpython                                             *)

\* the link entries of the staged extensions that are compiled in
StagedLinks ==
    UNION {Range(extension_modules[k].links) :
              k \in {n \in DOMAIN extension_modules : ~extension_modules[n].builtin_default}}

FrameworkNames ==
    {l.name : l \in {e \in StagedLinks \cup Range(dist.links_core) : e.framework}}

SystemLibraryNames ==
    {l.name : l \in {e \in StagedLinks \cup Range(dist.links_core) :
                        ~e.framework /\ e.system}}

LibraryNames ==
    {l.name : l \in {e \in StagedLinks :
                        /\ ~e.framework /\ ~e.system
                        /\ e.static_path # None \/ e.dynamic_path # None}}

DirectivesOf(cm, fmt) == SelectSeq(cm, LAMBDA l : l.fmt = fmt)

DirectiveNames(ds) == {ds[i].args[1] : i \in 1..Len(ds)}

\* C19: the directives link_libpython returns are the static link of
\* pyembeddedconfig, then one static link per needed library that is not
\* ignored (ascending by name), then the frameworks, then the system
\* libraries.
C19_DirectiveOrder ==
    pc = "linked" =>
        LET cm == libpython_info[1].cargo_metadata
            statics == DirectivesOf(cm, "cargo:rustc-link-lib=static={}")
            frameworks == DirectivesOf(cm, "cargo:rustc-link-lib=framework={}")
            systems == DirectivesOf(cm, "cargo:rustc-link-lib={}")
        IN  /\ cm = <<Line("cargo:rustc-link-lib=static=pyembeddedconfig", <<>>)>>
                    \o statics \o frameworks \o systems
            /\ DirectiveNames(statics) = LibraryNames \ Range(OS_IGNORE_LIBRARIES)
            /\ StrictlyAscending([i \in 1..Len(statics) |-> statics[i].args[1]])
            /\ DirectiveNames(frameworks) = FrameworkNames
            /\ Len(frameworks) = Cardinality(FrameworkNames)
            /\ DirectiveNames(systems) = SystemLibraryNames
            /\ Len(systems) = Cardinality(SystemLibraryNames)

\* macOS with _crypt, the linked _ssl and zlib staged: three static
\* libraries, two frameworks, two system libraries
C19_Witness ==
    /\ pc = "linked"
    /\ target_os = "macos"
    /\ LibraryNames = {Utf8["dl"], Utf8["ssl"], Utf8["crypto"], Utf8["z"], Utf8["m"]}
    /\ FrameworkNames = {Utf8["AppKit"], Utf8["Carbon"]}
    /\ SystemLibraryNames = {Utf8["pthread"], Utf8["crypt"]}
    /\ Len(libpython_info[1].cargo_metadata) = 8

\* link_libpython was entered and did not return
LinkFailed ==
    /\ pc = "panicked"
    /\ Len(children) = 2
    /\ \A i \in 1..Len(compile_log) : compile_log[i].result.ok

MissingLibraries ==
    {l \in LibraryNames : l \notin Range(OS_IGNORE_LIBRARIES) /\ l \notin DOMAIN dist.libraries}

\* C20: link_libpython fails, returning no LibpythonInfo, exactly when a
\* needed library is neither ignored nor shipped by the distribution; an
\* ignored library is never copied and gets no directive, shipped or not.
C20_MissingLibraryFails ==
    pc = "linked" \/ LinkFailed =>
        /\ LinkFailed <=> MissingLibraries # {}
        /\ LinkFailed => libpython_info = None
        /\ \A l \in Range(OS_IGNORE_LIBRARIES) :
              /\ \A i \in 1..Len(out_dir_libs) : out_dir_libs[i].to[3] # l
              /\ pc = "linked" =>
                    l \notin DirectiveNames(DirectivesOf(libpython_info[1].cargo_metadata,
                                                         "cargo:rustc-link-lib=static={}"))

\* Linux with readline and zlib staged: libreadline is not shipped; libm is
\* needed, ignored and not shipped
C20_Witness ==
    /\ LinkFailed
    /\ MissingLibraries = {Utf8["readline"]}
    /\ Utf8["m"] \in LibraryNames
    /\ Utf8["m"] \notin DOMAIN dist.libraries
    /\ libpython_info = None

-----------------------------------------------------------------------------
(* The objects of pythonXY                                                 *)

Linked == pc \in {"linked", "built"}

\* the object files of the Python core that are not a Modules/config.o
CoreObjectSet ==
    {<<"temp_dir">> \o e.rel_path :
        e \in {x \in Range(dist.objs_core) :
                 LET n == Len(x.rel_path)
                 IN  ~(n >= 2 /\ x.rel_path[n - 1] = "Modules"
                              /\ x.rel_path[n] = "config.o")}}

\* the object files of the staged extensions that are not builtin_default
ExtensionObjectSet ==
    UNION {Range(extension_modules[n].object_paths) :
             n \in {x \in DOMAIN extension_modules :
                      ~extension_modules[x].builtin_default}}

\* C21: the objects linked into pythonXY are the core objects whose relative
\* path does not end with the components Modules/config.o and the objects
\* of the staged extensions that are not builtin_default, and no others
C21_LinkedObjects ==
    Linked =>
        /\ Range(pythonXY_objects) = CoreObjectSet \cup ExtensionObjectSet
        /\ \A e \in Range(dist.objs_core) :
              PathEndsWith(e.rel_path, <<"Modules", "config.o">>)
                 => <<"temp_dir">> \o e.rel_path \notin Range(pythonXY_objects)
        /\ \A n \in DOMAIN extension_modules :
              extension_modules[n].builtin_default
                 => Range(extension_modules[n].object_paths)
                       \cap Range(pythonXY_objects) = {}

\* a Linux build has linked with a builtin_default extension and another
\* one staged; build/Modules/config.o was left out, xModules/config.o not
C21_Witness ==
    /\ pc = "linked"
    /\ dist = DistFull
    /\ Utf8["_io"] \in DOMAIN extension_modules
    /\ Utf8["_ssl"] \in DOMAIN extension_modules
    /\ <<"temp_dir", "xModules", "config.o">> \in Range(pythonXY_objects)
    /\ <<"temp_dir", "build", "Modules", "config.o">> \notin Range(pythonXY_objects)

-----------------------------------------------------------------------------
(* What run_from_build prints                                              *)

Built == pc = "built"

\* the cargo: line with this format and these arguments has been printed
Printed(fmt, args) ==
    \E i \in 1..Len(stdout) : stdout[i].fmt = fmt /\ stdout[i].args = args

RerunIfChanged(path) == Printed("cargo:rerun-if-changed={}", <<path>>)

\* the configuration file of the build: the one PYOXIDIZER_CONFIG names on
\* Windows, the pyoxidizer.<target>.toml one directory up otherwise
ConfigFileUsed ==
    CASE target_os = "windows" -> "/cfg/custom.toml"
      [] target_os = "linux" -> "/work/proj/pyoxidizer.linux.toml"
      [] target_os = "macos" -> "/work/proj/pyoxidizer.macos.toml"

\* C22: a run_from_build that returned has printed rerun-if-changed for the
\* build script, for the configuration file it used and for every path in
\* read_files, and rerun-if-env-changed for PYOXIDIZER_CONFIG
C22_RerunDirectives ==
    Built =>
        /\ RerunIfChanged("build.rs")
        /\ RerunIfChanged(ConfigFileUsed)
        /\ \A i \in 1..Len(read_files) : RerunIfChanged(read_files[i])
        /\ Printed("cargo:rerun-if-env-changed=PYOXIDIZER_CONFIG", <<>>)

\* a Linux build that read a filter file has returned
C22_Witness ==
    /\ Built
    /\ target_os = "linux"
    /\ read_files # <<>>
    /\ embedded # None
    /\ Len(stdout) > 3 + Len(read_files)

-----------------------------------------------------------------------------
(* The outputs are functions of the final maps                             *)

BlobsWritten == pc \in {"written", "linked", "built"}

\* the names of a set in ascending byte order: the i-th has i - 1 smaller ones
Ascending(S) ==
    [i \in 1..Cardinality(S) |->
        CHOOSE n \in S : Cardinality({m \in S : BytesLess(m, n)}) = i - 1]

\* the blob of the entries (names[i], data[names[i]])
Packed(names, data) ==
    LET es == [i \in 1..Len(names) |-> [name |-> names[i], data |-> data[names[i]]]]
    IN  LE32(Len(es)) \o LayoutIndex(es) \o LayoutNames(es) \o LayoutData(es)

\* config.c for the extensions named, in that order
ConfigCOf(names, ext) ==
    LET with_init == SelectSeq(names, LAMBDA n : /\ ext[n].init_fn # None
                                                 /\ ext[n].init_fn # Some("NULL"))
    IN  <<Line("#include \"Python.h\"", <<>>)>>
        \o [i \in 1..Len(with_init) |->
               Line("extern PyObject* {}(void);", <<ext[with_init[i]].init_fn[1]>>)]
        \o <<Line("struct _inittab _PyImport_Inittab[] = {", <<>>)>>
        \o [i \in 1..Len(with_init) |->
               Line("{{\"{}\", {}}},", <<with_init[i], ext[with_init[i]].init_fn[1]>>)]
        \o <<Line("{0, 0}", <<>>), Line("};", <<>>)>>

\* the runtime configuration of the one configuration file considered
RuntimeConfigText ==
    Line("PythonConfig {..}",
         <<"app", "None", <<"Some(\"{}\")", "strict">>, 0, FALSE,
           << <<"\"", "$ORIGIN/lib", "\".to_string()">>,
              <<"\"", "$ORIGIN", "\".to_string()">> >>,
           FALSE, FALSE, TRUE, TRUE, FALSE,
           <<"out_dir", "importlib_bootstrap">>,
           <<"out_dir", "importlib_bootstrap_external">>,
           <<"out_dir", "py-modules">>, <<"out_dir", "pyc-modules">>,
           FALSE, "None",
           <<"PythonRunMode::Module { module: \"", "app.main", "\".to_string() }">>>>)

\* C23: the three blob files, config.c and the runtime configuration are
\* functions of the final maps walked in ascending key order (and of the
\* configuration), whatever the order in which the rules staged the entries:
\* the same inputs give the same bytes
C23_Deterministic ==
    /\ BlobsWritten =>
          /\ blobs # None
          /\ blobs[1].py_modules =
                Packed(Ascending(DOMAIN sources),
                       [n \in DOMAIN sources |-> FileBytes(sources[n])])
          /\ blobs[1].pyc_modules =
                Packed(Ascending(DOMAIN module_bytecodes),
                       [n \in DOMAIN module_bytecodes |->
                           BytecodeBytes(module_bytecodes[n])])
          /\ blobs[1].module_names =
                LET names == Ascending(DOMAIN sources \cup DOMAIN module_bytecodes)
                IN  LayoutNames([i \in 1..Len(names) |-> [name |-> names[i] \o <<10>>]])
    /\ Linked => config_c = ConfigCOf(Ascending(DOMAIN extension_modules),
                                      extension_modules)
    /\ Built => embedded # None /\ embedded[1].python_config_rs = RuntimeConfigText

\* a build has returned in which a pip rule staged module a after an
\* earlier rule had staged the site-packages json: a comes first in the blob
C23_Witness ==
    /\ Built
    /\ rule_count >= 2
    /\ packaging.kind = "PipInstallSimple"
    /\ Utf8["json"] \in DOMAIN sources
    /\ sources[Utf8["json"]] = fs_read(<<"site", "json.py">>)
    /\ sources[Utf8["a"]] = fs_read(<<"tmp", "a.py">>)
    /\ Utf8["a"] \in DOMAIN module_bytecodes
    /\ extension_modules # EmptyMap

-----------------------------------------------------------------------------
(* pip install                                                             *)

\* C24: when the pip child of a PipInstallSimple rule exits with a non-zero
\* status the build fails at that rule: the rule produces no action from the
\* temporary directory and resolve_python_resources does not return
C24_PipFailureFails ==
    (packaging.kind = "PipInstallSimple" /\ pip = "exit_1") =>
        /\ RuleFailed
        /\ res = <<>>
        /\ ~Resolved

-----------------------------------------------------------------------------
(* Rules in configuration order                                            *)

\* the entries of a rule for one kind of resource and one name, in order
EntriesFor(es, type, name) ==
    SelectSeq(es, LAMBDA e : e.resource.type = type /\ e.resource.name = name)

\* what an entry stages
StagedValue(e) ==
    CASE e.resource.type = "ExtensionModule" -> e.resource.module
      [] e.resource.type = "ModuleSource" -> e.resource.source
      [] e.resource.type = "ModuleBytecode" ->
            <<e.resource.source, e.resource.optimize_level>>

IsFilter(package) == package.kind \in {"FilterFileInclude", "FilterFilesInclude"}

\* map was staged before a rule, map_ after it, the rule's entries being es:
\* a name kept has the value of the rule's last entry for it, or the value
\* it had when the rule has none; a rule that is no filter keeps every name
\* it adds last
LastWriteWins(map, map_, es, type, filter) ==
    /\ \A name \in DOMAIN map_ :
          LET mine == EntriesFor(es, type, name)
          IN  IF mine = <<>>
              THEN name \in DOMAIN map /\ map_[name] = map[name]
              ELSE /\ mine[Len(mine)].action = "Add"
                   /\ map_[name] = StagedValue(mine[Len(mine)])
    /\ ~filter =>
          \A i \in 1..Len(es) :
             LET mine == EntriesFor(es, type, es[i].resource.name)
             IN  (es[i].resource.type = type /\ mine[Len(mine)].action = "Add")
                    => es[i].resource.name \in DOMAIN map_

\* a step of the rule loop
C25_RuleStep ==
    pc = "staging" /\ pc' = "staging" /\ rule_count' = rule_count + 1 =>
        /\ LastWriteWins(sources, sources', res', "ModuleSource", IsFilter(packaging'))
        /\ LastWriteWins(bytecode_requests, bytecode_requests', res', "ModuleBytecode",
                         IsFilter(packaging'))
        /\ LastWriteWins(extension_modules, extension_modules', res', "ExtensionModule",
                         IsFilter(packaging'))

\* after the last rule no staged source or request changes, and no staged
\* extension changes unless it is removed
C25_AfterRules ==
    rule_count' = rule_count =>
        /\ sources' = sources
        /\ bytecode_requests' = bytecode_requests
        /\ \A name \in DOMAIN extension_modules \cap DOMAIN extension_modules' :
              extension_modules'[name] = extension_modules[name]

\* C25: when two rules add an entry of the same kind under the same name and
\* no filter removes it, the source, the bytecode request (source and
\* optimize level) or the extension variant staged when
\* resolve_python_resources returns is that of the later rule
C25_LastWriteWins == [][C25_RuleStep /\ C25_AfterRules]_vars

\* [Stdlib, Virtualenv, StdlibExtensionVariant _ssl, policy]: json comes from
\* site-packages, the later rule, and _ssl is the variant of the policy rule
C25_Witness ==
    /\ pc = "resolved"
    /\ rule_count = 3
    /\ packaging.kind = "StdlibExtensionsPolicy"
    /\ Utf8["json.tests"] \in DOMAIN sources
    /\ sources[Utf8["json"]] = fs_read(<<"site", "json.py">>)
    /\ bytecode_requests[Utf8["json"]][1] = fs_read(<<"site", "json.py">>)
    /\ Utf8["_ssl"] \in DOMAIN extension_modules
    /\ extension_modules[Utf8["_ssl"]].variant = "openssl-1.1"

-----------------------------------------------------------------------------
(* The site-packages directory of a virtualenv                             *)

\* the positions of the dots of a version string
Dots(version) == {i \in 1..Len(version) : version[i] = "."}

\* major.minor of a version major.minor.patch: what precedes the second dot
MajorMinor(version) ==
    LET second == CHOOSE i \in Dots(version) :
                     Cardinality({j \in Dots(version) : j < i}) = 1
    IN  SubSeq(version, 1, second - 1)

\* C26: a Virtualenv rule scans <path>/Lib/python<major.minor>/site-packages
\* on a windows distribution and <path>/lib/python<major.minor>/site-packages
\* on any other, for every version major.minor.patch (3.10.1 gives
\* python3.10)
C26_VirtualenvDirectory ==
    packaging.kind = "Virtualenv" =>
        /\ VirtualenvPackagesPath(packaging, dist)
             = <<packaging.path,
                 IF dist.os = "windows" THEN "Lib" ELSE "lib",
                 <<"python">> \o MajorMinor(dist.version),
                 "site-packages">>
        /\ dist.version = <<"3", ".", "1", "0", ".", "1">> =>
              VirtualenvPackagesPath(packaging, dist)[3] = <<"python", "3", ".", "1", "0">>

-----------------------------------------------------------------------------
(* The forced add and the ignore list                                      *)

\* the extensions of the distribution whose first variant is forced
Forced ==
    {name \in DOMAIN dist.extension_modules :
        \/ dist.extension_modules[name][1].builtin_default
        \/ dist.extension_modules[name][1].required}

Ignored == Range(OS_IGNORE_EXTENSIONS)

\* resolve_python_resources is past line 677
Closed == pc = "compiling" \/ Resolved

\* C27: no extension of the target's OS_IGNORE_EXTENSIONS is a key of
\* extension_modules when resolve_python_resources returns, whatever the
\* rules, also when its first variant is builtin_default or required;
\* nothing adds an extension after the removal
C27_IgnoredRemoved ==
    /\ [](Closed => Ignored \cap DOMAIN extension_modules = {})
    /\ [][Closed => extension_modules' = extension_modules]_vars

\* on Linux the last rule staged _crypt, which is required, and nis, which
\* is builtin_default; both are on the ignore list and gone
C27_Witness ==
    /\ pc = "resolved"
    /\ target_os = "linux"
    /\ EntriesFor(res, "ExtensionModule", Utf8["_crypt"]) # <<>>
    /\ EntriesFor(res, "ExtensionModule", Utf8["nis"]) # <<>>
    /\ {Utf8["_crypt"], Utf8["nis"]} \subseteq Forced \cap Ignored
    /\ Utf8["_crypt"] \notin DOMAIN extension_modules
    /\ Utf8["nis"] \notin DOMAIN extension_modules
    /\ Utf8["zlib"] \in DOMAIN extension_modules

\* C28: the forced add changes no extension that is staged: a variant other
\* than the first that a rule staged for a required or builtin_default
\* extension is the one returned
C28_ForcedAddKeepsStaged ==
    [][pc = "staging" /\ pc' = "compiling" =>
          \A name \in DOMAIN extension_modules \ Ignored :
              /\ name \in DOMAIN extension_modules'
              /\ extension_modules'[name] = extension_modules[name]]_vars

\* the no-libraries policy staged the second variant of zlib, which is
\* required; it is the variant returned
C28_Witness ==
    /\ pc = "resolved"
    /\ packaging.kind = "StdlibExtensionsPolicy"
    /\ Utf8["zlib"] \in Forced
    /\ \E i \in 1..Len(res) : /\ res[i].resource.name = Utf8["zlib"]
                              /\ res[i].resource.module.variant = "bundled"
    /\ extension_modules[Utf8["zlib"]].variant = "bundled"
    /\ dist.extension_modules[Utf8["zlib"]][1].variant = "default"

-----------------------------------------------------------------------------
(* A filter as the last rule                                               *)

\* the names listed by the two resource names files
NamesF1 ==
    {Utf8["json"], Utf8["json.tests"], Utf8["json.tests.test_foo"],
     Utf8["foo.barbell"], Utf8["zlib"]}

NamesF2 ==
    {Utf8["test"], Utf8["foo"], Utf8["a"], Utf8["_ssl"], Utf8["readline"], Utf8["atexit"]}

\* the whitelist of a filter rule that does not fail
Whitelist(package) ==
    CASE package.kind = "FilterFileInclude" /\ package.path = "F1" -> NamesF1
      [] package.kind = "FilterFileInclude" /\ package.path = "F2" -> NamesF2
      [] package.kind = "FilterFilesInclude" /\ package.glob = "F*" ->
            NamesF1 \cup NamesF2
      [] package.kind = "FilterFilesInclude" /\ package.glob = "none*" -> {}

\* map_ is map without the keys outside W
Restricted(map, map_, W) ==
    /\ DOMAIN map_ = DOMAIN map \cap W
    /\ \A key \in DOMAIN map_ : map_[key] = map[key]

\* a filter rule keeps of each map the entries with a key in W, unchanged
C29_FilterStep ==
    /\ pc = "staging" /\ pc' = "staging"
    /\ rule_count' = rule_count + 1
    /\ IsFilter(packaging')
    => LET W == Whitelist(packaging')
       IN  /\ Restricted(sources, sources', W)
           /\ Restricted(bytecode_requests, bytecode_requests', W)
           /\ Restricted(resources, resources', W)
           /\ Restricted(extension_modules, extension_modules', W)

\* what is returned when the last rule was a filter
C29_Returned ==
    Resolved /\ IsFilter(packaging) =>
        LET W == Whitelist(packaging)
        IN  /\ DOMAIN sources \subseteq W
            /\ DOMAIN module_bytecodes \subseteq W
            /\ DOMAIN resources \subseteq W
            /\ DOMAIN extension_modules \ W \subseteq Forced
            /\ DOMAIN module_bytecodes = DOMAIN bytecode_requests
            /\ \A name \in DOMAIN module_bytecodes :
                  module_bytecodes[name] =
                     compile(bytecode_requests[name][1], name,
                             bytecode_requests[name][2]).bytecode

\* C29: when the last rule is a FilterFileInclude or FilterFilesInclude with
\* whitelist W (empty when the glob matches no file), the returned
\* module_sources, module_bytecodes and resources have only keys in W and
\* keep unchanged every entry staged before the filter whose key is in W,
\* and every key of extension_modules outside W is that of an extension
\* whose first variant is builtin_default or required
C29_FilterLast == []C29_Returned /\ [][C29_FilterStep]_vars

\* [.., FilterFileInclude F1] returned: json of the whitelist is kept, and
\* _io, which is not on it, is back as a builtin_default extension
C29_Witness ==
    /\ pc = "resolved"
    /\ rule_count >= 2
    /\ packaging = [kind |-> "FilterFileInclude", path |-> "F1"]
    /\ Utf8["json"] \in DOMAIN sources
    /\ Utf8["json.tests"] \in DOMAIN module_bytecodes
    /\ Utf8["zlib"] \in DOMAIN extension_modules
    /\ Utf8["_io"] \in DOMAIN extension_modules \ Whitelist(packaging)

-----------------------------------------------------------------------------
(* PackageArchive::install                                                 *)

\* what the archive holds for a component: the kind of its manifest.in
KindOf(component) ==
    LET path == component \o <<47>> \o Utf8["manifest.in"]
    IN  IF path \notin DOMAIN manifest THEN "missing"
        ELSE CHOOSE kind \in ManifestKinds \ {"missing"} :
                manifest[path] = ManifestText(kind)

\* the index of the first component that cannot be installed, 0 if none
FirstBad ==
    LET bad == {i \in 1..Len(components) : KindOf(components[i]) # "plain"}
    IN  IF bad = {} THEN 0 ELSE CHOOSE i \in bad : \A j \in bad : i <= j

\* the files install writes for the i-th component, in order
WritesOf(i) ==
    LET file(name) == [component |-> i,
                       from |-> components[i] \o <<47>> \o Utf8[name],
                       to |-> Utf8[name]]
    IN  CASE KindOf(components[i]) = "plain" -> <<file("bin/tool"), file("lib/libtool.so")>>
          [] KindOf(components[i]) = "absent" -> <<file("bin/tool")>>
          [] OTHER -> <<>>

\* the writes of the components up to the n-th
WritesUpTo(n) == Flatten([i \in 1..n |-> WritesOf(i)])

\* the destination holds what the writes left: per path the data written last
DestinationOf(log) ==
    /\ DOMAIN dest_dir = {log[i].to : i \in 1..Len(log)}
    /\ \A i \in 1..Len(log) :
          (\A j \in (i + 1)..Len(log) : log[j].to # log[i].to)
             => dest_dir[log[i].to] = manifest[log[i].from]

ErrorOf(kind) ==
    CASE kind = "missing" -> "{} not found"
      [] kind = "dir" -> "support for copying directories not implemented"
      [] kind = "unknown" -> "unhandled action in manifest.in: {}"
      [] kind = "absent" -> "could not locate file {} in manifest"

\* C30: install takes the components in the order of the components file
\* and returns an error for the first whose manifest.in is missing, lists a
\* dir: entry, has an action other than file or dir, or lists a file the
\* archive does not have; no file of a component with a dir: entry is
\* written, and the files of the components before it stay in the
\* destination
C30_InstallStopsAtFirstBad ==
    /\ \A i, j \in 1..Len(written) : i < j => written[i].component <= written[j].component
    /\ DestinationOf(written)
    /\ install_pc = "ok" => FirstBad = 0 /\ written = WritesUpTo(Len(components))
    /\ install_pc = "err" =>
          /\ FirstBad # 0
          /\ component_index = FirstBad
          /\ install_error # None
          /\ install_error[1].error = ErrorOf(KindOf(components[FirstBad]))
          /\ written = WritesUpTo(FirstBad)
          /\ KindOf(components[FirstBad]) = "dir" =>
                /\ \A i \in 1..Len(written) : written[i].component < FirstBad
                /\ written = WritesUpTo(FirstBad - 1)
    /\ (install_pc \in {"component", "files"} /\ FirstBad # 0) => component_index <= FirstBad

\* [cargo, rustc] with a dir: entry in the manifest of rustc: the error is
\* returned at rustc, the two files of cargo are in the destination
C30_Witness ==
    /\ install_pc = "err"
    /\ components = <<Utf8["cargo"], Utf8["rustc"]>>
    /\ KindOf(Utf8["rustc"]) = "dir"
    /\ FirstBad = 2
    /\ Len(written) = 2
    /\ dest_dir = (Utf8["bin/tool"] :> Utf8["cargo"] \o <<1>>)
                   @@ (Utf8["lib/libtool.so"] :> Utf8["cargo"] \o <<2>>)

====
